---- MODULE Spec2Model ----
(***************************************************************************)
(* Device descriptors of zigbee-herdsman-converters: the local converters  *)
(* of the custom-device and Schneider Electric catalogs, the configure     *)
(* procedures that iterate over endpoints, the ptvo.switch exposes and     *)
(* endpoint derivation, and the identity data of the definitions lists.    *)
(*                                                                         *)
(* JavaScript values are represented as follows.  A KeyValue object is a   *)
(* function from property names (strings) to values.  A converter result   *)
(* is a record [defined, kv]: defined = FALSE is a return of undefined.    *)
(* A number with decimals is kept as an integer count of 10^-precision     *)
(* units ([units, precision]) or as a reduced fraction ([n, d]; d = 0 is   *)
(* a non-finite result: NaN when n = 0, Infinity otherwise).               *)
(***************************************************************************)
EXTENDS Integers, Sequences, FiniteSets, TLC

VARIABLES
    last,              \* the most recent converter call: arguments and outcome
    first,             \* history: the first converter call of the behaviour
    transactionStore,  \* utils.hasAlreadyProcessedMessage: key -> last id
    lastSet,           \* MULTI-ZIG-SW: the last successful convertSet of a switch type
    cfg,               \* the configure call in progress: record, device, promise state
    req,               \* configure: the request each endpoint's callback is waiting for
    clusterAttributes, \* endpoint.saveClusterAttributeKeyValue: endpoint id -> cluster -> attributes
    ptvoDevice,        \* ptvo.switch: the device: endpoints, clusters and meta
    exposesCall,       \* ptvo.switch: the last exposes(device) call and its result
    endpointCall,      \* ptvo.switch: the last endpoint(device) call and its result
    resolved           \* the last identity lookup in a definitions list

convVars == <<last, first, transactionStore, lastSet>>
cfgVars == <<cfg, req, clusterAttributes>>
ptvoVars == <<ptvoDevice, exposesCall, endpointCall>>
defVars == <<resolved>>
vars == <<last, first, transactionStore, lastSet, cfg, req, clusterAttributes, ptvoDevice, exposesCall, endpointCall, resolved>>

None == [op |-> "none"]

\* JavaScript's undefined inside a template literal or as a property value
undefined == "undefined"

NoResult == [defined |-> FALSE, kv |-> <<>>]
Result(kv) == [defined |-> TRUE, kv |-> kv]
EmptyKV == <<>>
KV(k, v) == [x \in {k} |-> v]

(***************************************************************************)
(* Bounds                                                                  *)
(***************************************************************************)
MaxEndpoint == 5          \* endpoints 1..MaxEndpoint of a MULTI-ZIG-SW device
MaxPresentValue == 5      \* presentValue 0..MaxPresentValue (5 is not in actionLookup)

Exp10(k) == IF k = 0 THEN 1 ELSE IF k = 1 THEN 10 ELSE IF k = 2 THEN 100 ELSE 1000

(***************************************************************************)
(* lib/utils helpers used by the converters                                *)
(***************************************************************************)
\* Math.round(n / d * 10^p) as a count of 10^-p units, d > 0
precisionRound(n, d, p) == (2 * n * Exp10(p) + d) \div (2 * d)

DefaultPrecision(type) ==
    IF type = "humidity" THEN 2 ELSE IF type = "pressure" THEN 1 ELSE 0

\* number = n/d; options = [calibration (in 1/100), precision (-1: not set)]
calibrateAndPrecisionRoundOptions(n, d, options, type) ==
    LET p == IF options.precision >= 0 THEN options.precision ELSE DefaultPrecision(type)
    IN  [units |-> precisionRound(100 * n + options.calibration * d, 100 * d, p),
         precision |-> p]

\* getKey(object, value): the key whose value is `value`, else undefined
getKey(object, value) ==
    IF \E k \in DOMAIN object : object[k] = value
    THEN CHOOSE k \in DOMAIN object : object[k] = value
    ELSE undefined

\* getFromLookup(value, lookup): throws when value is not a key of lookup
getFromLookup(value, lookup) ==
    IF value \in DOMAIN lookup
    THEN [threw |-> FALSE, v |-> lookup[value]]
    ELSE [threw |-> TRUE, v |-> -1]


\* postfixWithEndpointName(value, msg, model, meta)
postfixWithEndpointName(value, msg, model) ==
    IF model.multiEndpoint /\ getKey(model.endpoint, msg.endpointID) # undefined
    THEN value \o "_" \o getKey(model.endpoint, msg.endpointID)
    ELSE value

(***************************************************************************)
(* Custom devices: local converters                                        *)
(***************************************************************************)
switchTypesList == ("switch" :> 0) @@ ("multi-click" :> 2)

multi_zig_sw_endpoint == ("button_1" :> 2) @@ ("button_2" :> 3) @@ ("button_3" :> 4) @@ ("button_4" :> 5)

multi_zig_sw_keys == {"switch_type_1", "switch_type_2", "switch_type_3", "switch_type_4"}

\* exposes of the MULTI-ZIG-SW record: values of the action enum
multi_zig_sw_action_values == {"single", "double", "triple", "hold", "release"}

actionLookup == (0 :> "release") @@ (1 :> "single") @@ (2 :> "double") @@ (3 :> "triple") @@ (4 :> "hold")

\* convertSet falling back to the first switch type when the lookup misses
multi_zig_sw_switch_type_convertSet_defaulting(key, value) ==
    LET data == getFromLookup(value, switchTypesList)
    IN  [threw |-> FALSE,
         writes |-> <<[cluster |-> "genOnOffSwitchCfg", switchType |-> IF data.threw THEN 0 ELSE data.v]>>,
         state |-> Result(KV(key, value))]

\* tzLocal.multi_zig_sw_switch_type.convertSet
multi_zig_sw_switch_type_convertSet(key, value) ==
    LET data == getFromLookup(value, switchTypesList)
    IN  IF data.threw
        THEN [threw |-> TRUE, writes |-> <<>>, state |-> NoResult]
        ELSE [threw |-> FALSE,
              writes |-> <<[cluster |-> "genOnOffSwitchCfg", switchType |-> data.v]>>,
              state |-> Result(KV(key, value))]

\* fzLocal.multi_zig_sw_switch_buttons.convert
multi_zig_sw_switch_buttons(msg) ==
    LET button == getKey(multi_zig_sw_endpoint, msg.endpointID)
        value == msg.presentValue
        action == IF value \in DOMAIN actionLookup THEN actionLookup[value] ELSE undefined
    IN  Result(KV("action", button \o "_" \o action))

\* fzLocal.multi_zig_sw_switch_config.convert
multi_zig_sw_switch_config(msg) ==
    LET channel == getKey(multi_zig_sw_endpoint, msg.endpointID)
    IN  Result(KV("switch_type_" \o channel, getKey(switchTypesList, msg.switchType)))

\* humidity2 repeating the previous reading for an unrealistic value
humidity2_cached(model, msg, options) ==
    LET humidity == calibrateAndPrecisionRoundOptions(msg.measuredValue, 100, options, "humidity")
    IN  IF humidity.units >= 0 /\ humidity.units <= 100 * Exp10(humidity.precision)
        THEN Result(KV(IF model.multiEndpoint THEN postfixWithEndpointName("humidity", msg, model)
                       ELSE "humidity", humidity))
        ELSE IF last.op = "humidity2" THEN last.out ELSE NoResult

\* humidity2 without the upper limit of the range
humidity2_unlimited(model, msg, options) ==
    LET humidity == calibrateAndPrecisionRoundOptions(msg.measuredValue, 100, options, "humidity")
    IN  IF humidity.units >= 0
        THEN Result(KV(IF model.multiEndpoint THEN postfixWithEndpointName("humidity", msg, model)
                       ELSE "humidity", humidity))
        ELSE NoResult

\* fzLocal.humidity2.convert; the humidity is kept in units of 10^-precision
humidity2(model, msg, options) ==
    LET humidity == calibrateAndPrecisionRoundOptions(msg.measuredValue, 100, options, "humidity")
    IN  IF humidity.units >= 0 /\ humidity.units <= 100 * Exp10(humidity.precision)
        THEN LET property == IF model.multiEndpoint
                             THEN postfixWithEndpointName("humidity", msg, model)
                             ELSE "humidity"
             IN  Result(KV(property, humidity))
        ELSE NoResult

\* fzLocal.pressure2.convert; msg.scaled tells whether scaledValue is present,
\* msg.scale is the endpoint's stored msPressureMeasurement.scale
pressure2(model, msg, options) ==
    LET pressure ==
            IF msg.scaled
            THEN IF msg.scale >= 0
                 THEN calibrateAndPrecisionRoundOptions(msg.value, Exp10(msg.scale) * 100, options, "pressure")
                 ELSE calibrateAndPrecisionRoundOptions(msg.value * Exp10(-msg.scale), 100, options, "pressure")
            ELSE calibrateAndPrecisionRoundOptions(msg.value, 1, options, "pressure")
        property == IF model.multiEndpoint
                    THEN postfixWithEndpointName("pressure", msg, model)
                    ELSE "pressure"
    IN  Result(KV(property, pressure))

\* fzLocal.illuminance2.convert; 10 ** ((illuminance - 1) / 10000) is kept by
\* its exponent numerator: [zero] is 0 lux, [exp10000 |-> x] is 10^(x/10000)
illuminance2(model, msg) ==
    LET illuminance == msg.measuredValue
        illuminanceLux == IF illuminance = 0
                          THEN [zero |-> TRUE, exp10000 |-> 0]
                          ELSE [zero |-> FALSE, exp10000 |-> illuminance - 1]
        property1 == IF model.multiEndpoint
                     THEN postfixWithEndpointName("illuminance", msg, model)
                     ELSE "illuminance"
    IN  Result(KV(property1, illuminanceLux))


(***************************************************************************)
(* Schneider Electric: fzLocal.schneider_powertag                          *)
(***************************************************************************)
RECURSIVE GCD(_, _)
GCD(a, b) == IF b = 0 THEN a ELSE GCD(b, a % b)

NaN == [n |-> 0, d |-> 0]
Infinity == [n |-> 1, d |-> 0]
Num(x) == [n |-> x, d |-> 1]

\* a / b on numbers a >= 0; b is [present, v]: an absent divisor is undefined
JsDiv(a, b) ==
    IF ~b.present THEN NaN
    ELSE IF b.v = 0 THEN (IF a = 0 THEN NaN ELSE Infinity)
    ELSE LET g == GCD(a, b.v) IN [n |-> a \div g, d |-> b.v \div g]

Attr(attr, name) ==
    IF name \in DOMAIN attr THEN [present |-> TRUE, v |-> attr[name]] ELSE [present |-> FALSE, v |-> 0]

\* haElectricalMeasurement (2820): attribute, property, divisor, factor
ElectricalTable == <<
    [attr |-> "rmsVoltage",         prop |-> "voltage_phase_a",  div |-> "acVoltageDivisor",   mul |-> 1],
    [attr |-> "rmsVoltagePhB",      prop |-> "voltage_phase_b",  div |-> "acVoltageDivisor",   mul |-> 1],
    [attr |-> "rmsVoltagePhC",      prop |-> "voltage_phase_c",  div |-> "acVoltageDivisor",   mul |-> 1],
    [attr |-> "19200",              prop |-> "voltage_phase_ab", div |-> "acVoltageDivisor",   mul |-> 1],
    [attr |-> "19456",              prop |-> "voltage_phase_bc", div |-> "acVoltageDivisor",   mul |-> 1],
    [attr |-> "19712",              prop |-> "voltage_phase_ca", div |-> "acVoltageDivisor",   mul |-> 1],
    [attr |-> "rmsCurrent",         prop |-> "current_phase_a",  div |-> "acCurrentDivisor",   mul |-> 1],
    [attr |-> "rmsCurrentPhB",      prop |-> "current_phase_b",  div |-> "acCurrentDivisor",   mul |-> 1],
    [attr |-> "rmsCurrentPhC",      prop |-> "current_phase_c",  div |-> "acCurrentDivisor",   mul |-> 1],
    [attr |-> "totalActivePower",   prop |-> "power",            div |-> "powerDivisor",       mul |-> 1000],
    [attr |-> "totalApparentPower", prop |-> "power_apparent",   div |-> "powerDivisor",       mul |-> 1000],
    [attr |-> "acFrequency",        prop |-> "ac_frequency",     div |-> "acFrequencyDivisor", mul |-> 1],
    [attr |-> "activePower",        prop |-> "power_phase_a",    div |-> "powerDivisor",       mul |-> 1000],
    [attr |-> "activePowerPhB",     prop |-> "power_phase_b",    div |-> "powerDivisor",       mul |-> 1000],
    [attr |-> "activePowerPhC",     prop |-> "power_phase_c",    div |-> "powerDivisor",       mul |-> 1000] >>

\* seMetering (1794): the divided attributes; powerFactor is copied as it is
MeteringTable == <<
    [attr |-> "currentSummDelivered", prop |-> "energy",         div |-> "divisor", mul |-> 1],
    [attr |-> "16652",                prop |-> "energy_phase_a", div |-> "divisor", mul |-> 1],
    [attr |-> "16908",                prop |-> "energy_phase_b", div |-> "divisor", mul |-> 1],
    [attr |-> "17164",                prop |-> "energy_phase_c", div |-> "divisor", mul |-> 1] >>

Rows(table) == {table[i] : i \in DOMAIN table}

\* Scaled without the factor 1000 of the power attributes
Scaled_unfactored(table, attr) ==
    LET rows == {r \in Rows(table) : r.attr \in DOMAIN attr}
    IN  [p \in {r.prop : r \in rows} |->
            LET r == CHOOSE r \in rows : r.prop = p
            IN  JsDiv(attr[r.attr], Attr(attr, r.div))]

\* the properties a table yields for the attributes present in attr
Scaled(table, attr) ==
    LET rows == {r \in Rows(table) : r.attr \in DOMAIN attr}
    IN  [p \in {r.prop : r \in rows} |->
            LET r == CHOOSE r \in rows : r.prop = p
            IN  JsDiv(attr[r.attr] * r.mul, Attr(attr, r.div))]

\* the switch (commandID) { case 0xa1: switch (clusterID) ... } of the converter
powertag_ret(commandID, clusterID, attr) ==
    IF commandID = 161
    THEN IF clusterID = 2820 THEN Scaled(ElectricalTable, attr)
         ELSE IF clusterID = 1794
         THEN Scaled(MeteringTable, attr) @@
              (IF "powerFactor" \in DOMAIN attr THEN KV("power_factor", Num(attr["powerFactor"])) ELSE EmptyKV)
         ELSE EmptyKV
    ELSE EmptyKV

\* utils.hasAlreadyProcessedMessage(msg, model, id, key) on the store
hasAlreadyProcessedMessage(store, id, key) ==
    key \in DOMAIN store /\ store[key] = id

rememberMessage(store, id, key) ==
    IF hasAlreadyProcessedMessage(store, id, key) THEN store
    ELSE [k \in DOMAIN store \cup {key} |-> IF k = key THEN id ELSE store[k]]

\* the flag read from bit 0 instead of bit 11
rxAfterTx_bit0(options) == options % 2 = 1

\* msg.data.options & (1 << 11)
rxAfterTx(options) == (options \div 2048) % 2 = 1

\* the Schneider specific ACK
powertag_ack(msg, channel) ==
    [cluster |-> "greenPower", command |-> "response",
     options |-> 0, tempMaster |-> msg.gppNwkAddr, tempMasterTx |-> channel - 11,
     srcID |-> msg.srcID, gpdCmd |-> 254,
     srcEndpoint |-> 242, disableDefaultResponse |-> TRUE]

\* a key without the command id
powertag_key_by_device(msg) == msg.ieeeAddr

\* the key of the duplicate-detection record: `${msg.device.ieeeAddr}_${commandID}`
powertag_key(msg) == msg.ieeeAddr \o "_" \o ToString(msg.commandID)

\* the converter without the test of msg.type
schneider_powertag_unfiltered(msg, store, channel, ackOk) ==
    IF hasAlreadyProcessedMessage(store, msg.frameCounter, powertag_key(msg))
    THEN [result |-> NoResult, store |-> store, acks |-> <<>>, threw |-> FALSE, duplicate |-> TRUE]
    ELSE LET ret == powertag_ret(msg.commandID, msg.clusterID, msg.attr)
             store2 == rememberMessage(store, msg.frameCounter, powertag_key(msg))
         IN  IF rxAfterTx(msg.options)
             THEN IF ackOk
                  THEN [result |-> Result(ret), store |-> store2,
                        acks |-> <<powertag_ack(msg, channel)>>, threw |-> FALSE, duplicate |-> FALSE]
                  ELSE [result |-> NoResult, store |-> store2, acks |-> <<>>,
                        threw |-> TRUE, duplicate |-> FALSE]
             ELSE [result |-> Result(ret), store |-> store2, acks |-> <<>>,
                   threw |-> FALSE, duplicate |-> FALSE]

\* fzLocal.schneider_powertag.convert: the outcome of one call on the store;
\* ackOk tells whether the adapter calls of the acknowledgement succeed
schneider_powertag(msg, store, channel, ackOk) ==
    IF msg.type # "commandNotification"
    THEN [result |-> NoResult, store |-> store, acks |-> <<>>, threw |-> FALSE, duplicate |-> FALSE]
    ELSE IF hasAlreadyProcessedMessage(store, msg.frameCounter, powertag_key(msg))
    THEN [result |-> NoResult, store |-> store, acks |-> <<>>, threw |-> FALSE, duplicate |-> TRUE]
    ELSE LET ret == powertag_ret(msg.commandID, msg.clusterID, msg.attr)
             store2 == rememberMessage(store, msg.frameCounter, powertag_key(msg))
         IN  IF rxAfterTx(msg.options)
             THEN IF ackOk
                  THEN [result |-> Result(ret), store |-> store2,
                        acks |-> <<powertag_ack(msg, channel)>>, threw |-> FALSE, duplicate |-> FALSE]
                  ELSE [result |-> NoResult, store |-> store2, acks |-> <<>>,
                        threw |-> TRUE, duplicate |-> FALSE]
             ELSE [result |-> Result(ret), store |-> store2, acks |-> <<>>,
                   threw |-> FALSE, duplicate |-> FALSE]


(***************************************************************************)
(* Converter calls                                                         *)
(***************************************************************************)
MaxFrameCounter == 2
NetworkChannel == 15

SensorModels ==
    {[multiEndpoint |-> TRUE, endpoint |-> ("l1" :> 1) @@ ("l2" :> 2)],
     [multiEndpoint |-> FALSE, endpoint |-> ("l1" :> 1) @@ ("l2" :> 2)]}

SensorOptions == [calibration : {0, -150, 200}, precision : {-1, 0, 1}]
DefaultOptions == [calibration |-> 0, precision |-> -1]

HumidityValues == {-1, 0, 1, 4567, 9949, 9999, 10000, 10001, 10049, 10050, 65535}
HumidityMsgs == [measuredValue : HumidityValues, endpointID : 1..3]

PressureMsgs ==
    [scaled : BOOLEAN, value : {0, 1013, 10132}, scale : {-1, 0, 1}, endpointID : 1..3]

IlluminanceMsgs == [measuredValue : {0, 1, 10001, 30001}, endpointID : 1..3]

ButtonMsgs == [endpointID : 1..MaxEndpoint, presentValue : 0..MaxPresentValue]

SwitchConfigMsgs == [endpointID : 1..MaxEndpoint, switchType : 0..2]

SwitchTypeValues == {"switch", "multi-click", "toggle", "momentary", ""}

Call(op, args, out) == [op |-> op, args |-> args, out |-> out]

\* the history of the first call of a behaviour
Observe == first' = IF first = None THEN last' ELSE first

ConvertHumidity2(model, msg, options) ==
    /\ last' = Call("humidity2", <<model, msg, options>>, humidity2(model, msg, options))
    /\ UNCHANGED <<transactionStore, lastSet, cfgVars, ptvoVars, defVars>>

ConvertPressure2(model, msg, options) ==
    /\ last' = Call("pressure2", <<model, msg, options>>, pressure2(model, msg, options))
    /\ UNCHANGED <<transactionStore, lastSet, cfgVars, ptvoVars, defVars>>

ConvertIlluminance2(model, msg) ==
    /\ last' = Call("illuminance2", <<model, msg>>, illuminance2(model, msg))
    /\ UNCHANGED <<transactionStore, lastSet, cfgVars, ptvoVars, defVars>>

ConvertSwitchButtons(msg) ==
    /\ last' = Call("multi_zig_sw_switch_buttons", <<msg>>, multi_zig_sw_switch_buttons(msg))
    /\ UNCHANGED <<transactionStore, lastSet, cfgVars, ptvoVars, defVars>>

ConvertSwitchConfig(msg) ==
    /\ last' = Call("multi_zig_sw_switch_config", <<msg>>, multi_zig_sw_switch_config(msg))
    /\ UNCHANGED <<transactionStore, lastSet, cfgVars, ptvoVars, defVars>>

\* convertSet of a switch type on the endpoint `ep` the key was addressed to
ConvertSetSwitchType(ep, key, value) ==
    LET out == multi_zig_sw_switch_type_convertSet(key, value)
    IN  /\ last' = Call("multi_zig_sw_switch_type", <<ep, key, value>>, out)
        /\ lastSet' = IF out.threw THEN lastSet
                      ELSE [op |-> "set", ep |-> ep, key |-> key, value |-> value,
                            code |-> out.writes[1].switchType]
        /\ UNCHANGED <<transactionStore, cfgVars, ptvoVars, defVars>>

ConvertPowerTag(msg, ackOk) ==
    LET out == schneider_powertag(msg, transactionStore, NetworkChannel, ackOk)
    IN  /\ last' = Call("schneider_powertag", <<msg, ackOk>>,
                        [result |-> out.result, acks |-> out.acks, threw |-> out.threw,
                         duplicate |-> out.duplicate])
        /\ transactionStore' = out.store
        /\ UNCHANGED <<lastSet, cfgVars, ptvoVars, defVars>>


(***************************************************************************)
(* greenPower frames                                                       *)
(***************************************************************************)
ElectricalDivisors ==
    {("acVoltageDivisor" :> 10) @@ ("acCurrentDivisor" :> 1000) @@ ("acFrequencyDivisor" :> 100) @@ ("powerDivisor" :> 1000),
     ("acVoltageDivisor" :> 1) @@ ("acCurrentDivisor" :> 7) @@ ("acFrequencyDivisor" :> 1) @@ ("powerDivisor" :> 3),
     ("acVoltageDivisor" :> 0) @@ ("acCurrentDivisor" :> 1000)}

MeteringDivisors == {("divisor" :> 1000), ("divisor" :> 7), ("divisor" :> 0), <<>>}

RawValues == {0, 2301}

ElectricalNames == {r.attr : r \in Rows(ElectricalTable)}
MeteringNames == {r.attr : r \in Rows(MeteringTable)} \cup {"powerFactor"}

\* the measurement attributes of a frame: none, one, two, or all of them
Subsets(names, pair) == {{}} \cup {{a} : a \in names} \cup {pair, names}

AttrFrames(names, pair, divisors) ==
    {[a \in S |-> v] @@ d : S \in Subsets(names, pair), v \in RawValues, d \in divisors}

ElectricalAttrs == AttrFrames(ElectricalNames, {"rmsVoltage", "activePower"}, ElectricalDivisors)
MeteringAttrs == AttrFrames(MeteringNames, {"currentSummDelivered", "powerFactor"}, MeteringDivisors)

PowerTagDevice == "0x00000000e0000001"

Frame(type, commandID, frameCounter, options, clusterID, attr) ==
    [type |-> type, ieeeAddr |-> PowerTagDevice, commandID |-> commandID,
     frameCounter |-> frameCounter, options |-> options, clusterID |-> clusterID,
     attr |-> attr, srcID |-> 305419896, gppNwkAddr |-> 4660]

FewAttrs ==
    {("rmsVoltage" :> 2301) @@ ("acVoltageDivisor" :> 10),
     ("currentSummDelivered" :> 2301) @@ ("divisor" :> 1000)}

\* attribute reports of the two metering clusters
ReportFrames ==
    {Frame("commandNotification", 161, fc, 0, 2820, a) : fc \in 1..MaxFrameCounter, a \in ElectricalAttrs}
    \cup {Frame("commandNotification", 161, fc, 0, 1794, a) : fc \in 1..MaxFrameCounter, a \in MeteringAttrs}

\* frames of every type, command id, cluster and rxAfterTx flag
OtherFrames ==
    {Frame(t, c, fc, o, cl, a) :
        t \in {"commandNotification", "commandCommissioningNotification"},
        c \in {161, 163}, fc \in 1..MaxFrameCounter, o \in {0, 2047, 2048, 2049},
        cl \in {2820, 1794, 6}, a \in FewAttrs}

AckOutcomes(msg) == IF rxAfterTx(msg.options) THEN BOOLEAN ELSE {TRUE}

\* utils.isDummyDevice(device): a device without endpoints and meta
DummyDevice == [dummy |-> TRUE, endpoints |-> <<>>, meta |-> <<>>]

InitOthers ==
    /\ last = None
    /\ first = None
    /\ transactionStore = <<>>
    /\ lastSet = None
    /\ cfg = None
    /\ req = <<>>
    /\ clusterAttributes = <<>>
    /\ exposesCall = None
    /\ endpointCall = None
    /\ resolved = None

Init == InitOthers /\ ptvoDevice = DummyDevice

(***************************************************************************)
(* The sensor converters of ptvo.switch                                    *)
(***************************************************************************)
NextSensors ==
    \/ \E model \in SensorModels, msg \in HumidityMsgs, options \in SensorOptions \cup {DefaultOptions} :
          ConvertHumidity2(model, msg, options) /\ UNCHANGED first
    \/ \E model \in SensorModels, msg \in PressureMsgs :
          ConvertPressure2(model, msg, DefaultOptions) /\ UNCHANGED first
    \/ \E model \in SensorModels, msg \in IlluminanceMsgs :
          ConvertIlluminance2(model, msg) /\ UNCHANGED first

SpecSensors == Init /\ [][NextSensors]_vars

(***************************************************************************)
(* The converters of MULTI-ZIG-SW / QUAD-ZIG-SW                            *)
(***************************************************************************)
NextMultiZigSw ==
    \/ \E ep \in 1..MaxEndpoint, key \in multi_zig_sw_keys, value \in SwitchTypeValues :
          ConvertSetSwitchType(ep, key, value) /\ UNCHANGED first
    \/ \E msg \in ButtonMsgs : ConvertSwitchButtons(msg) /\ UNCHANGED first
    \/ \E msg \in SwitchConfigMsgs : ConvertSwitchConfig(msg) /\ UNCHANGED first

SpecMultiZigSw == Init /\ [][NextMultiZigSw]_vars

(***************************************************************************)
(* The PowerTag converter                                                  *)
(***************************************************************************)
NextPowerTag ==
    \/ \E msg \in ReportFrames : ConvertPowerTag(msg, TRUE) /\ UNCHANGED first
    \/ \E msg \in OtherFrames : \E ackOk \in AckOutcomes(msg) :
          ConvertPowerTag(msg, ackOk) /\ UNCHANGED first

SpecPowerTag == Init /\ [][NextPowerTag]_vars

(***************************************************************************)
(* Any sequence of inbound conversions, with the first call remembered     *)
(***************************************************************************)
FewSensorMsgs == {m \in HumidityMsgs : m.measuredValue \in {4567, 10001} /\ m.endpointID = 1}
FewModels == {m \in SensorModels : m.multiEndpoint}
FewFrames == {f \in OtherFrames : f.clusterID = 2820 /\ f.options \in {0, 2048}
                                  /\ "rmsVoltage" \in DOMAIN f.attr}

NextInbound ==
    \/ \E model \in FewModels, msg \in FewSensorMsgs :
          ConvertHumidity2(model, msg, DefaultOptions) /\ Observe
    \/ \E model \in FewModels, msg \in {m \in PressureMsgs : m.value = 1013 /\ m.endpointID = 1 /\ m.scale = -1} :
          ConvertPressure2(model, msg, DefaultOptions) /\ Observe
    \/ \E model \in FewModels, msg \in {m \in IlluminanceMsgs : m.endpointID = 1 /\ m.measuredValue < 10001} :
          ConvertIlluminance2(model, msg) /\ Observe
    \/ \E msg \in {m \in ButtonMsgs : m.endpointID = 2 /\ m.presentValue < 2} :
          ConvertSwitchButtons(msg) /\ Observe
    \/ \E msg \in {m \in SwitchConfigMsgs : m.endpointID = 2 /\ m.switchType # 1} :
          ConvertSwitchConfig(msg) /\ Observe
    \/ \E msg \in FewFrames : \E ackOk \in AckOutcomes(msg) :
          ConvertPowerTag(msg, ackOk) /\ Observe

SpecInbound == Init /\ [][NextInbound]_vars


(***************************************************************************)
(* Properties of the converters                                            *)
(***************************************************************************)
SameCall == first.op = last.op /\ first.args = last.args

C3_HumidityRange ==
    last.op = "humidity2" =>
        LET msg == last.args[2]
            options == last.args[3]
            p == IF options.precision >= 0 THEN options.precision ELSE 2
            u == Exp10(2 - p)                            \* one unit in 1/100
            c == msg.measuredValue + options.calibration \* calibrated, in 1/100
            \* k is c rounded to a multiple of u, halves upwards
            Rounds(k) == 2 * (k * u - c) <= u /\ 2 * (c - k * u) < u
            InRange == \E k \in 0..(100 * Exp10(p)) : Rounds(k)
        IN  /\ last.out.defined <=> InRange
            /\ c \in 0..10000 => last.out.defined
            /\ (2 * c < -u \/ 2 * c >= 20000 + u) => last.out = NoResult
            /\ last.out.defined =>
                  /\ Cardinality(DOMAIN last.out.kv) = 1
                  /\ DOMAIN last.out.kv \subseteq {"humidity", "humidity_l1", "humidity_l2"}
                  /\ \A key \in DOMAIN last.out.kv :
                        /\ last.out.kv[key].precision = p
                        /\ Rounds(last.out.kv[key].units)
                        /\ options = DefaultOptions => last.out.kv[key].units = msg.measuredValue

\* the boundary 100 is published, on a named endpoint
C3_WitnessPublished ==
    /\ last.op = "humidity2" /\ last.args[2].measuredValue = 10000
    /\ last.args[3] = DefaultOptions /\ last.out.defined
    /\ "humidity_l2" \in DOMAIN last.out.kv

\* C4: convertSet of a switch type fails for a value that is not a key of
\* switchTypesList, without a write and without a state update, and writes
\* switchType 0 for 'switch' and 2 for 'multi-click'.
C4_SwitchTypeSet ==
    last.op = "multi_zig_sw_switch_type" =>
        LET value == last.args[3]
            Write(code) == <<[cluster |-> "genOnOffSwitchCfg", switchType |-> code]>>
        IN  /\ value \notin {"switch", "multi-click"} =>
                  last.out.threw /\ last.out.writes = <<>> /\ ~last.out.state.defined
            /\ value = "switch" => ~last.out.threw /\ last.out.writes = Write(0)
            /\ value = "multi-click" => ~last.out.threw /\ last.out.writes = Write(2)

C4_WitnessMalformed ==
    /\ last.op = "multi_zig_sw_switch_type" /\ last.args[3] = "toggle" /\ last.out.threw
    /\ lastSet # None /\ lastSet.code = 2

\* C6: what each attribute of the two metering clusters is published as
C6_Published == {
    <<2820, "rmsVoltage", "voltage_phase_a", "acVoltageDivisor", 1>>,
    <<2820, "rmsVoltagePhB", "voltage_phase_b", "acVoltageDivisor", 1>>,
    <<2820, "rmsVoltagePhC", "voltage_phase_c", "acVoltageDivisor", 1>>,
    <<2820, "19200", "voltage_phase_ab", "acVoltageDivisor", 1>>,
    <<2820, "19456", "voltage_phase_bc", "acVoltageDivisor", 1>>,
    <<2820, "19712", "voltage_phase_ca", "acVoltageDivisor", 1>>,
    <<2820, "rmsCurrent", "current_phase_a", "acCurrentDivisor", 1>>,
    <<2820, "rmsCurrentPhB", "current_phase_b", "acCurrentDivisor", 1>>,
    <<2820, "rmsCurrentPhC", "current_phase_c", "acCurrentDivisor", 1>>,
    <<2820, "totalActivePower", "power", "powerDivisor", 1000>>,
    <<2820, "totalApparentPower", "power_apparent", "powerDivisor", 1000>>,
    <<2820, "acFrequency", "ac_frequency", "acFrequencyDivisor", 1>>,
    <<2820, "activePower", "power_phase_a", "powerDivisor", 1000>>,
    <<2820, "activePowerPhB", "power_phase_b", "powerDivisor", 1000>>,
    <<2820, "activePowerPhC", "power_phase_c", "powerDivisor", 1000>>,
    <<1794, "currentSummDelivered", "energy", "divisor", 1>>,
    <<1794, "16652", "energy_phase_a", "divisor", 1>>,
    <<1794, "16908", "energy_phase_b", "divisor", 1>>,
    <<1794, "17164", "energy_phase_c", "divisor", 1>>,
    <<1794, "powerFactor", "power_factor", "", 1>> }

\* C6: a processed 0xa1 report of cluster 2820 or 1794 yields, for each
\* measurement attribute present, exactly its own property with the value
\* raw * factor / divisor (divisor of the same frame; power_factor as it is),
\* and nothing for an absent attribute; any other cluster or command id
\* yields an empty result.
C6_PowerTagScaling ==
    (last.op = "schneider_powertag" /\ last.out.result.defined) =>
        LET msg == last.args[1]
            kv == last.out.result.kv
            mine == {e \in C6_Published : e[1] = msg.clusterID}
        IN  IF msg.commandID = 161 /\ msg.clusterID \in {2820, 1794}
            THEN /\ DOMAIN kv = {e[3] : e \in {x \in mine : x[2] \in DOMAIN msg.attr}}
                 /\ \A e \in mine : e[2] \in DOMAIN msg.attr =>
                       LET raw == msg.attr[e[2]]
                           v == kv[e[3]]
                       IN  IF e[4] = ""
                           THEN v.d = 1 /\ v.n = raw
                           ELSE (e[4] \in DOMAIN msg.attr /\ msg.attr[e[4]] # 0) =>
                                   v.d # 0 /\ v.n * msg.attr[e[4]] = raw * e[5] * v.d
            ELSE kv = EmptyKV

\* a power and a voltage of one frame, each scaled by its own divisor
C6_WitnessScaled ==
    /\ last.op = "schneider_powertag" /\ last.out.result.defined
    /\ last.args[1].clusterID = 2820
    /\ DOMAIN last.out.result.kv = {"voltage_phase_a", "power_phase_a"}
    /\ last.out.result.kv["voltage_phase_a"] = [n |-> 2301, d |-> 10]
    /\ last.out.result.kv["power_phase_a"] = [n |-> 2301, d |-> 1]

\* C9: every action value the button converter emits is one of the values
\* the record declares in its action expose.
C9_ActionDeclared ==
    last.op = "multi_zig_sw_switch_buttons" =>
        last.out.kv["action"] \in multi_zig_sw_action_values

\* the switch_type key and the endpoint of button k
SwitchTypeKey(k) == "switch_type_" \o ToString(k)
ButtonEndpoint(k) == multi_zig_sw_endpoint["button_" \o ToString(k)]

\* C10: convertSet on switch_type_k records switch_type_k = t and writes the
\* code c of t, and a report of switchType = c from the endpoint of button k
\* decodes to the same property switch_type_k with the same value t.
C10_SwitchTypeRoundTrip ==
    /\ (last.op = "multi_zig_sw_switch_type" /\ ~last.out.threw) =>
          /\ last.out.state = Result(KV(last.args[2], last.args[3]))
          /\ last.out.writes[1].switchType = switchTypesList[last.args[3]]
    /\ \A k \in 1..4 :
          (/\ last.op = "multi_zig_sw_switch_config"
           /\ lastSet # None
           /\ lastSet.key = SwitchTypeKey(k)
           /\ last.args[1].endpointID = ButtonEndpoint(k)
           /\ last.args[1].switchType = lastSet.code)
          => last.out = Result(KV(lastSet.key, lastSet.value))


(***************************************************************************)
(* configure of the LK FUGA records (545D6514, 545D6102)                   *)
(*                                                                         *)
(* cfg.status is the state of what configure returned to its caller:       *)
(* "pending" while the body waits for a request, "resolved" once it has    *)
(* returned, "rejected" when it threw.  req[ep] is the request the         *)
(* callback started by forEach for endpoint ep waits for ("bind",          *)
(* "onOff"), or how the callback ended ("done", "failed").  One await of   *)
(* reporting.bind or reporting.onOff is one outstanding request.           *)
(***************************************************************************)
LKEndpoints == {1, 2, 3, 21, 22, 23, 24}

\* devices: the endpoints present and those with genOnOff (6) as output cluster
LKDevices ==
    {[eps |-> E, out6 |-> O \cap E] :
        E \in {{1, 2, 21, 22, 23, 24}, {3, 21, 22, 23, 24}, {1, 2, 3}, {3, 21, 23}, {1, 21}},
        O \in {{21, 22, 23, 24}, {21}, {}}}

Outstanding == {ep \in DOMAIN req : req[ep] \in {"bind", "onOff"}}

Quiescent == (IF cfg = None THEN TRUE ELSE cfg.status # "pending") /\ Outstanding = {}

\* 545D6514 configure: forEach starts one callback per endpoint and returns
Configure545D6514(device) ==
    /\ Quiescent
    /\ req' = [ep \in {e \in device.eps : e \in device.out6 \/ e <= 2} |-> "bind"]
    /\ cfg' = [op |-> "configure", model |-> "545D6514", device |-> device,
               status |-> "resolved", main |-> "done"]
    /\ UNCHANGED <<clusterAttributes, convVars, ptvoVars, defVars>>

\* 545D6102 configure: waits for the bind of endpoint 3
Configure545D6102(device) ==
    /\ Quiescent
    /\ req' = <<>>
    /\ cfg' = [op |-> "configure", model |-> "545D6102", device |-> device,
               status |-> IF 3 \in device.eps THEN "pending" ELSE "rejected",
               main |-> IF 3 \in device.eps THEN "bind" ELSE "done"]
    /\ UNCHANGED <<clusterAttributes, convVars, ptvoVars, defVars>>

\* 545D6102 configure, after the bind of endpoint 3: forEach starts the
\* callbacks of the front switches and the body returns
Configure545D6102Continue(ok) ==
    /\ cfg # None /\ cfg.model = "545D6102" /\ cfg.status = "pending" /\ cfg.main = "bind"
    /\ IF ok
       THEN /\ req' = [ep \in {e \in cfg.device.eps : 21 <= e /\ e <= 24} |-> "bind"]
            /\ cfg' = [cfg EXCEPT !.status = "resolved", !.main = "done"]
       ELSE /\ req' = req
            /\ cfg' = [cfg EXCEPT !.status = "rejected", !.main = "done"]
    /\ UNCHANGED <<clusterAttributes, convVars, ptvoVars, defVars>>

\* the request of the callback of endpoint ep completes; the callback goes on
CallbackContinue(ep, ok) ==
    /\ ep \in Outstanding
    /\ req' = [req EXCEPT ![ep] =
                  IF ~ok THEN "failed"
                  ELSE IF cfg.model = "545D6514" /\ req[ep] = "bind" /\ ep <= 2 THEN "onOff"
                  ELSE "done"]
    /\ UNCHANGED <<cfg, clusterAttributes, convVars, ptvoVars, defVars>>

NextConfigure ==
    \/ \E device \in LKDevices : Configure545D6514(device)
    \/ \E device \in LKDevices : Configure545D6102(device)
    \/ \E ok \in BOOLEAN : Configure545D6102Continue(ok)
    \/ \E ep \in LKEndpoints, ok \in BOOLEAN : CallbackContinue(ep, ok)

SpecConfigure == Init /\ [][NextConfigure]_vars

\* C2: when configure has returned, every bind and reporting request it
\* issued has completed: none is outstanding and none fails afterwards.
C2_ConfigureSynchronous ==
    (cfg # None /\ cfg.status = "resolved") =>
        \A ep \in DOMAIN req : req[ep] = "done"


(***************************************************************************)
(* JavaScript string functions used by the ptvo.switch derivation          *)
(***************************************************************************)
CharAt(s, i) == SubSeq(s, i, i)

\* the characters of the model, in the order of their character codes
CodeOrder == "\n\r #%*,-0123456789ABCDEFGHIJKLMNOPQRSTUVWXYZ_abcdefghijklmnopqrstuvwxyz"
Code(c) == CHOOSE i \in 1..Len(CodeOrder) : CharAt(CodeOrder, i) = c

HexDigits == "0123456789ABCDEF"
IsHexDigit(c) == \E i \in 1..16 : CharAt(HexDigits, i) = c
HexDigitValue(c) == (CHOOSE i \in 1..16 : CharAt(HexDigits, i) = c) - 1
IsDecDigit(c) == \E i \in 1..10 : CharAt(HexDigits, i) = c

\* the length of the match of /^[0-9A-F]+/ (0: no match)
HexPrefixLen(s) ==
    CHOOSE n \in 0..Len(s) :
        /\ \A i \in 1..n : IsHexDigit(CharAt(s, i))
        /\ n = Len(s) \/ ~IsHexDigit(CharAt(s, n + 1))

RECURSIVE ParseDigits(_, _, _)
\* the value of the digit string s in the given radix, after the value acc
ParseDigits(s, radix, acc) ==
    IF s = "" THEN acc
    ELSE ParseDigits(SubSeq(s, 2, Len(s)), radix, acc * radix + HexDigitValue(CharAt(s, 1)))

\* Number.parseInt(s, 16) of a string of uppercase hexadecimal digits
ParseInt16(s) == ParseDigits(s, 16, 0)

\* Number.parseInt(s, 10) of "-1" or of a string starting with decimal digits
ParseInt10(s) ==
    IF CharAt(s, 1) = "-" THEN 0 - ParseDigits(SubSeq(s, 2, Len(s)), 10, 0)
    ELSE LET n == CHOOSE n \in 0..Len(s) :
                      /\ \A i \in 1..n : IsDecDigit(CharAt(s, i))
                      /\ n = Len(s) \/ ~IsDecDigit(CharAt(s, n + 1))
         IN  ParseDigits(SubSeq(s, 1, n), 10, 0)

\* s.substr(from) and s.substr(from, len), from counted from 0
Substr(s, from, len) ==
    SubSeq(s, from + 1, IF from + len > Len(s) THEN Len(s) ELSE from + len)
SubstrFrom(s, from) == SubSeq(s, from + 1, Len(s))

RECURSIVE SplitRec(_, _, _, _, _, _)
\* the items of s between separators; a run of separators counts as one
\* separator when `runs` holds
SplitRec(s, seps, runs, cur, acc, inSep) ==
    IF s = "" THEN Append(acc, cur)
    ELSE LET c == CharAt(s, 1)
             rest == SubSeq(s, 2, Len(s))
         IN  IF c \in seps
             THEN IF runs /\ inSep
                  THEN SplitRec(rest, seps, runs, cur, acc, TRUE)
                  ELSE SplitRec(rest, seps, runs, "", Append(acc, cur), TRUE)
             ELSE SplitRec(rest, seps, runs, cur \o c, acc, FALSE)

\* s.split(/[\r\n]+/)
SplitLines(s) == SplitRec(s, {"\r", "\n"}, TRUE, "", <<>>, FALSE)

\* s.split(",")
SplitComma(s) == SplitRec(s, {","}, FALSE, "", <<>>, FALSE)

RECURSIVE StrLess(_, _)
\* a < b in the order Array.prototype.sort() uses
StrLess(a, b) ==
    IF b = "" THEN FALSE
    ELSE IF a = "" THEN TRUE
    ELSE IF CharAt(a, 1) = CharAt(b, 1) THEN StrLess(SubSeq(a, 2, Len(a)), SubSeq(b, 2, Len(b)))
    ELSE Code(CharAt(a, 1)) < Code(CharAt(b, 1))

RECURSIVE Insert(_, _)
Insert(sorted, x) ==
    IF sorted = <<>> THEN <<x>>
    ELSE IF StrLess(x, sorted[1]) THEN <<x>> \o sorted
    ELSE <<sorted[1]>> \o Insert(Tail(sorted), x)

RECURSIVE Sort(_)
\* array.sort(): stable, ascending
Sort(a) == IF a = <<>> THEN <<>> ELSE Insert(Sort(SubSeq(a, 1, Len(a) - 1)), a[Len(a)])

StartsWith(s, prefix) == Len(s) >= Len(prefix) /\ SubSeq(s, 1, Len(prefix)) = prefix

\* s.search(/(\d+)$/): the position, from 0, of the trailing run of digits; -1 if none
SearchTrailingDigits(s) ==
    IF s = "" \/ ~IsDecDigit(CharAt(s, Len(s))) THEN -1
    ELSE (CHOOSE i \in 1..Len(s) :
             /\ \A j \in i..Len(s) : IsDecDigit(CharAt(s, j))
             /\ i = 1 \/ ~IsDecDigit(CharAt(s, i - 1))) - 1


Lower == "abcdefghijklmnopqrstuvwxyz"
Upper == "ABCDEFGHIJKLMNOPQRSTUVWXYZ"

\* c.toUpperCase() of one character
ToUpperCase(c) ==
    IF \E i \in 1..26 : CharAt(Lower, i) = c
    THEN CharAt(Upper, CHOOSE i \in 1..26 : CharAt(Lower, i) = c)
    ELSE c

\* s.replace("_", " "): the first occurrence only
ReplaceUnderscore(s) ==
    IF \E i \in 1..Len(s) : CharAt(s, i) = "_"
    THEN LET i == CHOOSE i \in 1..Len(s) : CharAt(s, i) = "_" /\ \A j \in 1..(i - 1) : CharAt(s, j) # "_"
         IN  SubSeq(s, 1, i - 1) \o " " \o SubSeq(s, i + 1, Len(s))
    ELSE s

(***************************************************************************)
(* ptvo.switch: exposes                                                    *)
(*                                                                         *)
(* An expose is [type, name, endpoint, access, unit, description]; the     *)
(* endpoint is "" when withEndpoint was not applied.  Options objects are  *)
(* sets of the keys that were set to true.                                 *)
(***************************************************************************)
Expose(type, name, endpoint) ==
    [type |-> type, name |-> name, endpoint |-> endpoint, access |-> "", unit |-> "",
     description |-> ""]

NumericExpose(name, access, unit, description) ==
    [type |-> "numeric", name |-> name, endpoint |-> "", access |-> access, unit |-> unit,
     description |-> description]

TextExpose(epName) ==
    [type |-> "text", name |-> epName, endpoint |-> epName, access |-> "ALL", unit |-> "",
     description |-> "State or sensor value"]

supportsInputCluster(endpoint, cluster) == cluster \in endpoint.inputClusters
supportsOutputCluster(endpoint, cluster) == cluster \in endpoint.outputClusters

\* device.getEndpoint(id): the position of the endpoint in device.endpoints, 0 if none
getEndpoint(device, id) ==
    IF \E i \in DOMAIN device.endpoints : device.endpoints[i].ID = id
    THEN CHOOSE i \in DOMAIN device.endpoints : device.endpoints[i].ID = id
    ELSE 0

ptvoGetMetaOption(device, key, defaultValue) ==
    IF ~device.dummy
    THEN IF key \in DOMAIN device.meta THEN device.meta[key] ELSE defaultValue
    ELSE defaultValue

\* the sensor exposes pushed for the measurement clusters of an endpoint
SensorExposes(endpoint, epName) ==
    (IF supportsInputCluster(endpoint, "msTemperatureMeasurement")
     THEN <<Expose("temperature", "temperature", epName)>> ELSE <<>>)
    \o (IF supportsInputCluster(endpoint, "msRelativeHumidity")
        THEN <<Expose("humidity", "humidity", epName)>> ELSE <<>>)
    \o (IF supportsInputCluster(endpoint, "msPressureMeasurement")
        THEN <<Expose("pressure", "pressure", epName)>> ELSE <<>>)
    \o (IF supportsInputCluster(endpoint, "msIlluminanceMeasurement")
        THEN <<Expose("illuminance", "illuminance", epName)>> ELSE <<>>)
    \o (IF supportsInputCluster(endpoint, "msCO2") THEN <<Expose("co2", "co2", "")>> ELSE <<>>)
    \o (IF supportsInputCluster(endpoint, "pm25Measurement") THEN <<Expose("pm25", "pm25", "")>> ELSE <<>>)

\* ptvoAddStandardExposes(endpoint, expose, options, deviceOptions): the three
\* objects it mutates, after the call
ptvoAddStandardExposes(endpoint, expose, options, deviceOptions) ==
    LET epName == "l" \o ToString(endpoint.ID)
        light == IF supportsInputCluster(endpoint, "lightingColorCtrl")
                 THEN [e |-> <<Expose("light_brightness_colorxy", "state", epName)>>,
                       o |-> {"exposed_onoff", "exposed_analog", "exposed_colorcontrol"}]
                 ELSE IF supportsInputCluster(endpoint, "genLevelCtrl")
                 THEN [e |-> <<Expose("light_brightness", "state", epName)>>,
                       o |-> {"exposed_onoff", "exposed_analog", "exposed_levelcontrol"}]
                 ELSE [e |-> <<>>, o |-> {}]
        options1 == options \cup light.o
        onoff == IF supportsInputCluster(endpoint, "genOnOff") /\ "exposed_onoff" \notin options1
                 THEN <<Expose("switch", "state", epName)>> ELSE <<>>
        analog == (supportsInputCluster(endpoint, "genAnalogInput")
                   \/ supportsOutputCluster(endpoint, "genAnalogInput"))
                  /\ "exposed_analog" \notin options1
        options2 == IF analog THEN options1 \cup {"exposed_analog"} ELSE options1
        electrical == IF supportsInputCluster(endpoint, "haElectricalMeasurement")
                         /\ options2 \cap {"exposed_voltage", "exposed_current", "exposed_power"} = {}
                      THEN <<Expose("voltage", "voltage", epName), Expose("current", "current", epName),
                             Expose("power", "power", epName)>>
                      ELSE <<>>
        metering == IF supportsInputCluster(endpoint, "seMetering") /\ "exposed_energy" \notin options2
                    THEN <<Expose("energy", "energy", epName)>> ELSE <<>>
    IN  [expose |-> expose \o light.e \o onoff \o (IF analog THEN <<TextExpose(epName)>> ELSE <<>>)
                    \o SensorExposes(endpoint, epName) \o electrical \o metering,
         options |-> options2,
         deviceOptions |->
             deviceOptions
             \cup (IF supportsInputCluster(endpoint, "genPowerCfg") THEN {"expose_battery"} ELSE {})
             \cup (IF supportsInputCluster(endpoint, "genMultistateInput")
                      \/ supportsOutputCluster(endpoint, "genMultistateInput")
                   THEN {"expose_action"} ELSE {})]


\* the record of one call of ptvoAddStandardExposes and of one processed
\* entry of allEndpointsSorted, kept in the order of the calls
StandardCall(endpoint) == [kind |-> "standard", id |-> endpoint.ID, entry |-> ""]
EntryProcessed(epId, entry) == [kind |-> "entry", id |-> epId, entry |-> entry]

RECURSIVE NoConfigLoopFrom(_, _, _, _, _)
\* for (const endpoint of device.endpoints) with fresh endpoint options
NoConfigLoopFrom(device, i, expose, deviceOptions, calls) ==
    IF i > Len(device.endpoints)
    THEN [expose |-> expose, deviceOptions |-> deviceOptions, calls |-> calls]
    ELSE LET r == ptvoAddStandardExposes(device.endpoints[i], expose, {}, deviceOptions)
         IN  NoConfigLoopFrom(device, i + 1, r.expose, r.deviceOptions,
                              Append(calls, StandardCall(device.endpoints[i])))

NoConfigLoop(device, i, expose, deviceOptions) ==
    NoConfigLoopFrom(device, i, expose, deviceOptions, <<>>)

\* the fallback exposes of a dummy device
FallbackExposes ==
    [i \in 1..16 |->
        LET epName == "l" \o ToString((i + 1) \div 2)
        IN  IF i % 2 = 1 THEN TextExpose(epName) ELSE Expose("switch", "state", epName)]

\* epId < 10 ? `0${epId}` : epId
Pad2(epId) == IF epId < 10 THEN "0" \o ToString(epId) ELSE ToString(epId)

RECURSIVE ConfigLines(_, _, _, _)
\* the first loop of the config path: the lines that start with an endpoint
\* id, rewritten with the decimal id, and the ids found
ConfigLines(deviceConfigArray, i, allEndpoints, allEndpointsSorted) ==
    IF i > Len(deviceConfigArray)
    THEN [allEndpoints |-> allEndpoints, allEndpointsSorted |-> allEndpointsSorted]
    ELSE LET epConfig == deviceConfigArray[i]
             n == HexPrefixLen(epConfig)
             epId == ParseInt16(SubSeq(epConfig, 1, n))
         IN  IF n = 0
             THEN ConfigLines(deviceConfigArray, i + 1, allEndpoints, allEndpointsSorted)
             ELSE ConfigLines(deviceConfigArray, i + 1, allEndpoints \cup {epId},
                              Append(allEndpointsSorted, Pad2(epId) \o SubSeq(epConfig, n + 1, Len(epConfig))))

RECURSIVE OtherEndpoints(_, _, _, _)
\* the second loop: the endpoints of the device without a config line
OtherEndpoints(device, i, allEndpoints, allEndpointsSorted) ==
    IF i > Len(device.endpoints) THEN allEndpointsSorted
    ELSE IF device.endpoints[i].ID \in allEndpoints
    THEN OtherEndpoints(device, i + 1, allEndpoints, allEndpointsSorted)
    ELSE OtherEndpoints(device, i + 1, allEndpoints,
                        Append(allEndpointsSorted, Pad2(device.endpoints[i].ID)))

infoLookup ==
    ("C" :> "temperature") @@ ("%" :> "humidity") @@ ("m" :> "altitude") @@ ("Pa" :> "pressure")
    @@ ("ppm" :> "quality") @@ ("psize" :> "particle_size") @@ ("V" :> "voltage")
    @@ ("A" :> "current") @@ ("Wh" :> "energy") @@ ("W" :> "power") @@ ("Hz" :> "frequency")
    @@ ("pf" :> "power_factor") @@ ("lx" :> "illuminance")

gpioStateLookup ==
    ("g" :> "gas") @@ ("n" :> "noise_detected") @@ ("o" :> "occupancy") @@ ("p" :> "presence")
    @@ ("m" :> "smoke") @@ ("s" :> "sos") @@ ("t" :> "tamper") @@ ("v" :> "vibration")
    @@ ("w" :> "water_leak")

\* items[i] of valueConfigItems, "" when absent
Item(items, i) == IF i <= Len(items) THEN items[i] ELSE ""

\* the analog value branch of a config line: the expose and the option set
AnalogValue(valueId0, valueDescription0, valueUnit0, epName, epStateType) ==
    LET idxPos == SearchTrailingDigits(valueId0)
        cpm == StartsWith(valueId0, "mcpm") \/ StartsWith(valueId0, "ncpm")
        digit == Substr(valueId0, 4, 1)
        num == IF digit # "" /\ IsHexDigit(ToUpperCase(digit))
               THEN ToString(HexDigitValue(ToUpperCase(digit))) ELSE "NaN"
        valueNumIndex == IF ~cpm /\ idxPos >= 0 THEN SubstrFrom(valueId0, idxPos) ELSE ""
        valueId == IF ~cpm /\ idxPos >= 0 THEN Substr(valueId0, 0, idxPos) ELSE valueId0
        known == valueId \in DOMAIN infoLookup
        \* valueName before the endpoint name is appended; "" stands for undefined
        valueName == IF cpm THEN Substr(valueId0, 0, 4) \o num
                     ELSE IF known THEN infoLookup[valueId]
                     ELSE IF valueNumIndex # "" THEN "val" \o valueNumIndex
                     ELSE ""
        description1 == IF valueDescription0 = ""
                        THEN (IF known THEN ReplaceUnderscore(infoLookup[valueId]) ELSE "Sensor value")
                        ELSE valueDescription0
        description2 == ToUpperCase(Substr(description1, 0, 1)) \o SubstrFrom(description1, 1)
        description3 == IF valueNumIndex # "" THEN description2 \o " " \o valueNumIndex ELSE description2
        valueUnit == IF valueUnit0 = "" /\ known THEN valueId ELSE valueUnit0
    IN  [e |-> <<NumericExpose(IF valueName = "" THEN epName ELSE valueName \o "_" \o epName,
                               epStateType, valueUnit, description3)>>,
         o |-> (IF valueName # "" THEN {"exposed_" \o valueName} ELSE {}) \cup {"exposed_analog"}]

\* what one entry of allEndpointsSorted contributes before the standard exposes
ConfigEntry(epConfig, epName) ==
    LET epValueAccessRights == Substr(epConfig, 0, 1)
        epStateType == IF epValueAccessRights = "W" \/ epValueAccessRights = "*"
                       THEN "STATE_SET" ELSE "STATE"
        valueConfig == SubstrFrom(epConfig, 1)
        valueConfigItems == IF valueConfig # "" THEN SplitComma(valueConfig) ELSE <<>>
        valueId == Item(valueConfigItems, 1)
        valueDescription == Item(valueConfigItems, 2)
        valueUnit == Item(valueConfigItems, 3)
    IN  IF valueId = "*"
        THEN [e |-> <<Expose("switch", "state", epName)>>, o |-> {"exposed_onoff"}]
        ELSE IF valueId = "#"
        THEN [e |-> <<Expose(IF valueDescription \in DOMAIN gpioStateLookup
                             THEN gpioStateLookup[valueDescription] ELSE "contact",
                             "state", epName)>>,
              o |-> {"exposed_onoff"}]
        ELSE IF Len(valueConfigItems) > 0
        THEN AnalogValue(valueId, valueDescription, valueUnit, epName, epStateType)
        ELSE [e |-> <<>>, o |-> {}]

RECURSIVE ConfigLoopFrom(_, _, _, _, _, _, _)
\* the third loop; epOptions maps an endpoint name to its options
ConfigLoopFrom(device, allEndpointsSorted, i, expose, epOptions, deviceOptions, calls) ==
    IF i > Len(allEndpointsSorted)
    THEN [expose |-> expose, deviceOptions |-> deviceOptions, calls |-> calls]
    ELSE LET epId == ParseInt10(Substr(allEndpointsSorted[i], 0, 2))
             epConfig == SubstrFrom(allEndpointsSorted[i], 2)
             epName == "l" \o ToString(epId)
             entry == ConfigEntry(epConfig, epName)
             exposeEpOptions == (IF epName \in DOMAIN epOptions THEN epOptions[epName] ELSE {})
                                \cup entry.o
             expose1 == expose \o entry.e
             epConfigNext == IF i + 1 <= Len(allEndpointsSorted) /\ allEndpointsSorted[i + 1] # ""
                             THEN allEndpointsSorted[i + 1] ELSE "-1"
             epIdNext == ParseInt10(Substr(epConfigNext, 0, 2))
             endpoint == getEndpoint(device, epId)
             std == ptvoAddStandardExposes(device.endpoints[endpoint], expose1, exposeEpOptions,
                                           deviceOptions)
             calls1 == Append(calls, EntryProcessed(epId, allEndpointsSorted[i]))
         IN  IF epIdNext # epId /\ endpoint # 0
             THEN ConfigLoopFrom(device, allEndpointsSorted, i + 1, std.expose,
                                 (epName :> std.options) @@ epOptions, std.deviceOptions,
                                 Append(calls1, StandardCall(device.endpoints[endpoint])))
             ELSE ConfigLoopFrom(device, allEndpointsSorted, i + 1, expose1,
                                 (epName :> exposeEpOptions) @@ epOptions, deviceOptions, calls1)

ConfigLoop(device, allEndpointsSorted, i, expose, epOptions, deviceOptions) ==
    ConfigLoopFrom(device, allEndpointsSorted, i, expose, epOptions, deviceOptions, <<>>)

\* the expose list of the config path
ConfigExposes(device, deviceConfig) ==
    LET lines == ConfigLines(SplitLines(deviceConfig), 1, {}, <<>>)
        allEndpointsSorted ==
            Sort(OtherEndpoints(device, 1, lines.allEndpoints, lines.allEndpointsSorted))
    IN  ConfigLoop(device, allEndpointsSorted, 1, <<>>, <<>>, {})

\* the body of exposes up to the device-level exposes: the list, the device
\* options and the calls made
ptvo_exposes_body(device) ==
    LET deviceConfig == ptvoGetMetaOption(device, "device_config", "")
    IN  IF deviceConfig = "" \/ device.dummy
        THEN IF ~device.dummy THEN NoConfigLoop(device, 1, <<>>, {})
             ELSE [expose |-> FallbackExposes, deviceOptions |-> {}, calls |-> <<>>]
        ELSE ConfigExposes(device, deviceConfig)

\* exposes: (device, options) => Expose[] of the ptvo.switch record
ptvo_exposes(device) ==
    LET r == ptvo_exposes_body(device)
    IN  r.expose
        \o (IF "expose_action" \in r.deviceOptions THEN <<Expose("action", "action", "")>> ELSE <<>>)
        \o (IF "expose_battery" \in r.deviceOptions THEN <<Expose("battery", "battery", "")>> ELSE <<>>)

(***************************************************************************)
(* ptvo.switch: endpoint                                                   *)
(***************************************************************************)
\* endpointList of the device endpoints
DeviceEndpointNames(device) ==
    IF device.dummy THEN <<>>
    ELSE LET ids == {device.endpoints[i].ID : i \in DOMAIN device.endpoints}
         IN  [epName \in {"l" \o ToString(epId) : epId \in ids} |->
                 CHOOSE epId \in ids : epName = "l" \o ToString(epId)]

RECURSIVE ConfigEndpointNames(_, _, _)
ConfigEndpointNames(deviceConfigArray, i, endpointList) ==
    IF i > Len(deviceConfigArray) THEN endpointList
    ELSE LET n == HexPrefixLen(deviceConfigArray[i])
             epId == ParseInt16(SubSeq(deviceConfigArray[i], 1, n))
         IN  IF n = 0 THEN ConfigEndpointNames(deviceConfigArray, i + 1, endpointList)
             ELSE ConfigEndpointNames(deviceConfigArray, i + 1,
                                      (("l" \o ToString(epId)) :> epId) @@ endpointList)

\* endpointList is an array that only gets named properties: its length is 0
ArrayLength(endpointList) == 0

\* endpoint: (device) => {[name]: id} of the ptvo.switch record
ptvo_endpoint(device) ==
    LET deviceConfig == ptvoGetMetaOption(device, "device_config", "")
        endpointList == DeviceEndpointNames(device)
        named == IF deviceConfig = ""
                 THEN IF ArrayLength(endpointList) = 0
                      THEN [epName \in {"l" \o ToString(epId) : epId \in 1..8} |->
                               CHOOSE epId \in 1..8 : epName = "l" \o ToString(epId)] @@ endpointList
                      ELSE endpointList
                 ELSE ConfigEndpointNames(SplitLines(deviceConfig), 1, endpointList)
    IN  ("action" :> 1) @@ named


(***************************************************************************)
(* ptvo.switch devices and calls                                           *)
(***************************************************************************)
MaxLines == 2        \* lines of a device_config

Endpoint(id, inputClusters, outputClusters) ==
    [ID |-> id, inputClusters |-> inputClusters, outputClusters |-> outputClusters]

PtvoEndpointLists ==
    {<<>>,
     <<Endpoint(1, {"genBasic", "genOnOff"}, {}), Endpoint(2, {"genOnOff", "genLevelCtrl"}, {})>>,
     <<Endpoint(1, {"genBasic", "genPowerCfg"}, {"genMultistateInput"}),
       Endpoint(10, {"genAnalogInput", "msTemperatureMeasurement"}, {}),
       Endpoint(100, {"genOnOff"}, {})>>,
     <<Endpoint(3, {"lightingColorCtrl", "genOnOff", "genAnalogInput"}, {}),
       Endpoint(2, {"haElectricalMeasurement", "seMetering"}, {})>>,
     <<Endpoint(1, {"genOnOff", "msRelativeHumidity", "msCO2"}, {"genAnalogInput"})>>,
     <<Endpoint(100, {"genPowerCfg", "genOnOff"}, {"genMultistateInput"})>>}

PtvoLines == {"01W*", "01R#", "02R#,o", "03RC", "02RV1,,mV", "0AW*", "64W*", "64*", "zz"}

RECURSIVE PtvoConfigs(_)
\* the configuration strings of at most k lines
PtvoConfigs(k) ==
    IF k = 0 THEN {""}
    ELSE PtvoConfigs(k - 1) \cup PtvoLines
         \cup {c \o "\n" \o l : c \in PtvoConfigs(k - 1) \ {""}, l \in PtvoLines}

PtvoDevices ==
    {DummyDevice}
    \cup {[dummy |-> FALSE, endpoints |-> e, meta |-> m] :
             e \in PtvoEndpointLists,
             m \in {<<>>, ("device_config" :> "01W*\r\n\n02R#,o\n")}
                   \cup {("device_config" :> c) : c \in PtvoConfigs(MaxLines)}}

CallExposes ==
    /\ exposesCall' = [op |-> "exposes", result |-> ptvo_exposes(ptvoDevice),
                        calls |-> ptvo_exposes_body(ptvoDevice).calls]
    /\ UNCHANGED <<ptvoDevice, endpointCall, convVars, cfgVars, defVars>>

CallEndpoint ==
    /\ endpointCall' = [op |-> "endpoint", result |-> ptvo_endpoint(ptvoDevice)]
    /\ UNCHANGED <<ptvoDevice, exposesCall, convVars, cfgVars, defVars>>

InitPtvo == InitOthers /\ ptvoDevice \in PtvoDevices

NextPtvo == CallExposes \/ CallEndpoint

SpecPtvo == InitPtvo /\ [][NextPtvo]_vars

(***************************************************************************)
(* Properties of the ptvo.switch derivation                                *)
(***************************************************************************)
EndsWith(s, suffix) ==
    Len(s) >= Len(suffix) /\ SubSeq(s, Len(s) - Len(suffix) + 1, Len(s)) = suffix

\* the lines of the device_config that start with an endpoint id, as
\* [id, value]: the numeric value of the id and the value id of the line
\* (what follows the id and the access character, up to the first comma)
ConfigLineSet ==
    LET deviceConfig == ptvoGetMetaOption(ptvoDevice, "device_config", "")
        lines == SplitLines(deviceConfig)
    IN  {[id |-> ParseInt16(SubSeq(lines[i], 1, HexPrefixLen(lines[i]))),
          value |-> Item(SplitComma(SubstrFrom(lines[i], HexPrefixLen(lines[i]) + 1)), 1)] :
            i \in {j \in DOMAIN lines : HexPrefixLen(lines[j]) > 0}}

ExposeSet == {exposesCall.result[i] : i \in DOMAIN exposesCall.result}
DeviceEndpointIds == {ptvoDevice.endpoints[i].ID : i \in DOMAIN ptvoDevice.endpoints}
EpName(n) == "l" \o ToString(n)
GpioStateTypes == {gpioStateLookup[k] : k \in DOMAIN gpioStateLookup} \cup {"contact"}
ConfigPath == ~ptvoDevice.dummy /\ ptvoGetMetaOption(ptvoDevice, "device_config", "") # ""

\* C5: with a non-empty device_config, every line that starts with an
\* uppercase hexadecimal endpoint id N contributes its expose under the
\* endpoint name l<N>, also for N >= 100, and other lines contribute nothing.
C5_ConfigLineEndpointName ==
    (exposesCall # None /\ ConfigPath) =>
        /\ \A line \in ConfigLineSet :
              /\ line.value = "*" =>
                    \E e \in ExposeSet : e.type = "switch" /\ e.endpoint = EpName(line.id)
              /\ line.value = "#" =>
                    \E e \in ExposeSet : e.type \in GpioStateTypes /\ e.endpoint = EpName(line.id)
              /\ line.value \notin {"*", "#", ""} =>
                    \E e \in ExposeSet : e.type = "numeric" /\ EndsWith(e.name, EpName(line.id))
        /\ \A e \in ExposeSet :
              /\ e.type = "numeric" =>
                    \E line \in ConfigLineSet : EndsWith(e.name, EpName(line.id))
              /\ e.endpoint # "" =>
                    \E n \in {line.id : line \in ConfigLineSet} \cup DeviceEndpointIds :
                        e.endpoint = EpName(n)

\* C8: every endpoint name l<N> attached to an expose returned by exposes()
\* is a key of the map returned by endpoint() for the same device, mapped to N.
C8_ExposesMatchEndpointMap ==
    (exposesCall # None /\ endpointCall # None) =>
        \A e \in ExposeSet :
            e.endpoint # "" =>
                /\ e.endpoint \in DOMAIN endpointCall.result
                /\ e.endpoint = EpName(endpointCall.result[e.endpoint])


(***************************************************************************)
(* The identity of the records of the three definitions lists: model,      *)
(* zigbeeModel strings, and whether the record has a fingerprint           *)
(***************************************************************************)
\* src/devices/schneider_electric.ts: the identity of each record of the definitions list
schneider_electric_definitions == <<
    [model |-> "CCT5015-0001", zigbeeModel |-> {"PUCK/SHUTTER/1"}, fingerprint |-> FALSE],
    [model |-> "S520567", zigbeeModel |-> {"NHPB/SHUTTER/1"}, fingerprint |-> FALSE],
    [model |-> "WV704R0A0902", zigbeeModel |-> {"iTRV"}, fingerprint |-> FALSE],
    [model |-> "U202DST600ZB", zigbeeModel |-> {"U202DST600ZB"}, fingerprint |-> FALSE],
    [model |-> "CCT5010-0001", zigbeeModel |-> {"PUCK/DIMMER/1"}, fingerprint |-> FALSE],
    [model |-> "CCT5011-0001/CCT5011-0002/MEG5011-0001", zigbeeModel |-> {"PUCK/SWITCH/1"}, fingerprint |-> FALSE],
    [model |-> "CCT5010-0003", zigbeeModel |-> {"PUCK/UNIDIM/1"}, fingerprint |-> FALSE],
    [model |-> "CCTFR6730", zigbeeModel |-> {"CCTFR6730"}, fingerprint |-> FALSE],
    [model |-> "WDE002334", zigbeeModel |-> {"NHROTARY/DIMMER/1"}, fingerprint |-> FALSE],
    [model |-> "NH3516A", zigbeeModel |-> {"NHROTARY/UNIDIM/1"}, fingerprint |-> FALSE],
    [model |-> "WDE002960", zigbeeModel |-> {"NHPB/UNIDIM/1"}, fingerprint |-> FALSE],
    [model |-> "550B1024", zigbeeModel |-> {"CCT593011_AS"}, fingerprint |-> FALSE],
    [model |-> "WDE002386", zigbeeModel |-> {"NHPB/DIMMER/1"}, fingerprint |-> FALSE],
    [model |-> "41EPBDWCLMZ/354PBDMBTZ", zigbeeModel |-> {"CH/DIMMER/1"}, fingerprint |-> FALSE],
    [model |-> "41E2PBSWMZ/356PB2MBTZ", zigbeeModel |-> {"CH2AX/SWITCH/1"}, fingerprint |-> FALSE],
    [model |-> "41E10PBSWMZ-VW", zigbeeModel |-> {"CH10AX/SWITCH/1"}, fingerprint |-> FALSE],
    [model |-> "41ECSFWMZ-VW", zigbeeModel |-> {"CHFAN/SWITCH/1"}, fingerprint |-> FALSE],
    [model |-> "CCT711119", zigbeeModel |-> {"SMARTPLUG/1"}, fingerprint |-> FALSE],
    [model |-> "U201DST600ZB", zigbeeModel |-> {"U201DST600ZB"}, fingerprint |-> FALSE],
    [model |-> "U201SRY2KWZB", zigbeeModel |-> {"U201SRY2KWZB"}, fingerprint |-> FALSE],
    [model |-> "CCTFR6100Z3", zigbeeModel |-> {"CCTFR6100"}, fingerprint |-> FALSE],
    [model |-> "S520530W", zigbeeModel |-> {"NHPB/SWITCH/1"}, fingerprint |-> FALSE],
    [model |-> "U202SRY2KWZB", zigbeeModel |-> {"U202SRY2KWZB"}, fingerprint |-> FALSE],
    [model |-> "MEG5113-0300/MEG5165-0000", zigbeeModel |-> {"1GANG/SHUTTER/1"}, fingerprint |-> FALSE],
    [model |-> "MEG5116-0300/MEG5171-0000", zigbeeModel |-> {"1GANG/DIMMER/1", "1GANG/DALI/1"}, fingerprint |-> FALSE],
    [model |-> "MEG5126-0300/MEG5171-0000", zigbeeModel |-> {"2GANG/DIMMER/1"}, fingerprint |-> FALSE],
    [model |-> "MEG5126-0300/MEG5172-0000", zigbeeModel |-> {"2GANG/DIMMER/2"}, fingerprint |-> FALSE],
    [model |-> "MEG5161-0000", zigbeeModel |-> {"1GANG/SWITCH/1"}, fingerprint |-> FALSE],
    [model |-> "545D6514", zigbeeModel |-> {"LK Switch"}, fingerprint |-> FALSE],
    [model |-> "545D6102", zigbeeModel |-> {"LK Dimmer"}, fingerprint |-> FALSE],
    [model |-> "550D6001", zigbeeModel |-> {"FLS/AIRLINK/4"}, fingerprint |-> FALSE],
    [model |-> "CCTFR6700", zigbeeModel |-> {}, fingerprint |-> TRUE],
    [model |-> "CCTFR6400", zigbeeModel |-> {}, fingerprint |-> TRUE],
    [model |-> "EER40030", zigbeeModel |-> {"EH-ZB-SPD-V2"}, fingerprint |-> FALSE],
    [model |-> "EER42000", zigbeeModel |-> {"EH-ZB-LMACT"}, fingerprint |-> FALSE],
    [model |-> "MEG5126-0300", zigbeeModel |-> {"2GANG/SWITCH/2", "2GANG/SWITCH/1"}, fingerprint |-> FALSE],
    [model |-> "EER53000", zigbeeModel |-> {"EH-ZB-VACT"}, fingerprint |-> FALSE],
    [model |-> "EER51000", zigbeeModel |-> {"EH-ZB-RTS"}, fingerprint |-> FALSE],
    [model |-> "EER50000", zigbeeModel |-> {"EH-ZB-HACT"}, fingerprint |-> FALSE],
    [model |-> "WDE002906/MEG5001-0300", zigbeeModel |-> {"FLS/SYSTEM-M/4"}, fingerprint |-> FALSE],
    [model |-> "EKO09738", zigbeeModel |-> {"SOCKET/OUTLET/2"}, fingerprint |-> FALSE],
    [model |-> "EKO09716", zigbeeModel |-> {"SOCKET/OUTLET/1"}, fingerprint |-> FALSE],
    [model |-> "545D6115", zigbeeModel |-> {"LK/OUTLET/1"}, fingerprint |-> FALSE],
    [model |-> "MUR36014", zigbeeModel |-> {"EVSCKT/OUTLET/1"}, fingerprint |-> FALSE],
    [model |-> "NH3526", zigbeeModel |-> {"NHMOTION/SWITCH/1"}, fingerprint |-> FALSE],
    [model |-> "CCT595011", zigbeeModel |-> {"CCT595011_AS"}, fingerprint |-> FALSE],
    [model |-> "3025CSGZ", zigbeeModel |-> {"CH/Socket/2"}, fingerprint |-> FALSE],
    [model |-> "CCT592011", zigbeeModel |-> {"CCT592011_AS"}, fingerprint |-> FALSE],
    [model |-> "A9MEM1570", zigbeeModel |-> {}, fingerprint |-> TRUE],
    [model |-> "W599001", zigbeeModel |-> {"W599001", "W599501", "755WSA"}, fingerprint |-> FALSE],
    [model |-> "CCT591011_AS", zigbeeModel |-> {"CCT591011_AS"}, fingerprint |-> FALSE],
    [model |-> "EKO07259", zigbeeModel |-> {"EKO07259"}, fingerprint |-> FALSE],
    [model |-> "WDE002497", zigbeeModel |-> {"WDE002497"}, fingerprint |-> FALSE],
    [model |-> "WDE011680", zigbeeModel |-> {"WDE011680"}, fingerprint |-> FALSE],
    [model |-> "MEG5126-0300_MEG5152-0000", zigbeeModel |-> {"2GANG/ESWITCH/2"}, fingerprint |-> FALSE],
    [model |-> "MEG5116-0300_MEG5162-0000", zigbeeModel |-> {"1GANG/SWITCH/2"}, fingerprint |-> FALSE],
    [model |-> "MEG5116-0300_MEG5151-0000", zigbeeModel |-> {"1GANG/ESWITCH/1"}, fingerprint |-> FALSE],
    [model |-> "E8331DST300ZB", zigbeeModel |-> {"E8331DST300ZB"}, fingerprint |-> FALSE],
    [model |-> "E8332DST350ZB", zigbeeModel |-> {"E8332DST350ZB"}, fingerprint |-> FALSE],
    [model |-> "E8331SRY800ZB", zigbeeModel |-> {"E8331SRY800ZB"}, fingerprint |-> FALSE],
    [model |-> "E8331SRY800ZB_NEW", zigbeeModel |-> {"A3N31SR800ZB_xx_C1"}, fingerprint |-> FALSE],
    [model |-> "E8332SRY800ZB", zigbeeModel |-> {"E8332SRY800ZB"}, fingerprint |-> FALSE],
    [model |-> "E8332SRY800ZB_NEW", zigbeeModel |-> {"A3N32SR800ZB_xx_C1"}, fingerprint |-> FALSE],
    [model |-> "E8333SRY800ZB", zigbeeModel |-> {"E8333SRY800ZB"}, fingerprint |-> FALSE],
    [model |-> "E8333SRY800ZB_NEW", zigbeeModel |-> {"A3N33SR800ZB_xx_C1"}, fingerprint |-> FALSE],
    [model |-> "E8332SCN300ZB", zigbeeModel |-> {"E8332SCN300ZB"}, fingerprint |-> FALSE],
    [model |-> "E8334RWMZB", zigbeeModel |-> {"E8334RWMZB"}, fingerprint |-> FALSE],
    [model |-> "NH3527A", zigbeeModel |-> {"NHMOTION/DIMMER/1"}, fingerprint |-> FALSE],
    [model |-> "NHMOTION/UNIDIM/1", zigbeeModel |-> {"NHMOTION/UNIDIM/1"}, fingerprint |-> FALSE],
    [model |-> "S520619", zigbeeModel |-> {"S520619"}, fingerprint |-> FALSE] >>

\* custom devices (DiY): the identity of each record of the definitions list
custom_devices_diy_definitions == <<
    [model |-> "Silabs series 2 router", zigbeeModel |-> {}, fingerprint |-> TRUE],
    [model |-> "ti.router", zigbeeModel |-> {"ti.router"}, fingerprint |-> FALSE],
    [model |-> "CC2530.ROUTER", zigbeeModel |-> {"lumi.router"}, fingerprint |-> FALSE],
    [model |-> "CC2538.ROUTER.V1", zigbeeModel |-> {"cc2538.router.v1"}, fingerprint |-> FALSE],
    [model |-> "CC2538.ROUTER.V2", zigbeeModel |-> {"cc2538.router.v2"}, fingerprint |-> FALSE],
    [model |-> "ptvo.switch", zigbeeModel |-> {"ptvo.switch"}, fingerprint |-> FALSE],
    [model |-> "DNCKATSD001", zigbeeModel |-> {"DNCKAT_D001"}, fingerprint |-> FALSE],
    [model |-> "DNCKATSW001", zigbeeModel |-> {"DNCKAT_S001"}, fingerprint |-> FALSE],
    [model |-> "DNCKATSW002", zigbeeModel |-> {"DNCKAT_S002"}, fingerprint |-> FALSE],
    [model |-> "DNCKATSW003", zigbeeModel |-> {"DNCKAT_S003"}, fingerprint |-> FALSE],
    [model |-> "DNCKATSW004", zigbeeModel |-> {"DNCKAT_S004"}, fingerprint |-> FALSE],
    [model |-> "ZigUP", zigbeeModel |-> {"ZigUP"}, fingerprint |-> FALSE],
    [model |-> "ZWallRemote0", zigbeeModel |-> {"ZWallRemote0"}, fingerprint |-> FALSE],
    [model |-> "ZeeFlora", zigbeeModel |-> {"ZeeFlora"}, fingerprint |-> FALSE],
    [model |-> "EFR32MG21.Router.1", zigbeeModel |-> {"UT-01"}, fingerprint |-> FALSE],
    [model |-> "EFR32MG21.Router.2", zigbeeModel |-> {"UT-02"}, fingerprint |-> FALSE],
    [model |-> "b-parasite", zigbeeModel |-> {"b-parasite"}, fingerprint |-> FALSE],
    [model |-> "MULTI-ZIG-SW", zigbeeModel |-> {"MULTI-ZIG-SW"}, fingerprint |-> FALSE],
    [model |-> "LYWSD03MMC", zigbeeModel |-> {"LYWSD03MMC"}, fingerprint |-> FALSE],
    [model |-> "MHO-C401N", zigbeeModel |-> {"MHO-C401N"}, fingerprint |-> FALSE],
    [model |-> "QUAD-ZIG-SW", zigbeeModel |-> {"QUAD-ZIG-SW"}, fingerprint |-> FALSE],
    [model |-> "ptvo_counter_2ch", zigbeeModel |-> {"ptvo_counter_2ch"}, fingerprint |-> FALSE],
    [model |-> "alab.switch", zigbeeModel |-> {"alab.switch"}, fingerprint |-> FALSE],
    [model |-> "FanBee", zigbeeModel |-> {"FanBee1", "Fanbox2"}, fingerprint |-> FALSE] >>

\* the Sercomm list with the zigbeeModel of SZ-ESW01 copied into SZ-ESW02
sercomm_definitions_copied == <<
    [model |-> "SZ-ESW01", zigbeeModel |-> {"SZ-ESW01"}, fingerprint |-> FALSE],
    [model |-> "SZ-ESW02", zigbeeModel |-> {"SZ-ESW01"}, fingerprint |-> FALSE] >>

\* Sercomm: the identity of each record of the definitions list
sercomm_definitions == <<
    [model |-> "SZ-ESW01", zigbeeModel |-> {"SZ-ESW01"}, fingerprint |-> FALSE],
    [model |-> "SZ-ESW01-AU", zigbeeModel |-> {"SZ-ESW01-AU"}, fingerprint |-> FALSE],
    [model |-> "SZ-ESW02N-CZ3", zigbeeModel |-> {"SZ-ESW02N-CZ3"}, fingerprint |-> FALSE],
    [model |-> "SZ-ESW02", zigbeeModel |-> {"SZ-ESW02"}, fingerprint |-> FALSE],
    [model |-> "XHS2-SE", zigbeeModel |-> {"XHS2-SE"}, fingerprint |-> FALSE],
    [model |-> "SZ-DWS04", zigbeeModel |-> {"SZ-DWS04", "SZ-DWS04N_SF"}, fingerprint |-> FALSE],
    [model |-> "SZ-DWS08", zigbeeModel |-> {"SZ-DWS08N", "SZ-DWS08", "SZ-DWS08N-CZ3"}, fingerprint |-> FALSE],
    [model |-> "AL-PIR02", zigbeeModel |-> {"SZ-PIR02_SF", "SZ-PIR02"}, fingerprint |-> FALSE],
    [model |-> "SZ-PIR04N", zigbeeModel |-> {"SZ-PIR04N", "SZ-PIR04N_EU"}, fingerprint |-> FALSE],
    [model |-> "SZ-WTD03", zigbeeModel |-> {"SZ-WTD03"}, fingerprint |-> FALSE] >>

DefinitionLists ==
    ("schneider_electric" :> schneider_electric_definitions)
    @@ ("custom_devices_diy" :> custom_devices_diy_definitions)
    @@ ("sercomm" :> sercomm_definitions)

ZigbeeModels(list) == UNION {list[i].zigbeeModel : i \in DOMAIN list}

\* the model ids a device may report: those of the lists and an unknown one
ModelIds == UNION {ZigbeeModels(DefinitionLists[l]) : l \in DOMAIN DefinitionLists} \cup {"unknown"}

\* the records of a list whose zigbeeModel contains the model id of a device
MatchingRecords(list, modelID) == {i \in DOMAIN list : modelID \in list[i].zigbeeModel}

\* the dispatcher looks a device up in a list by its model id
Resolve(l, modelID) ==
    /\ resolved' = [op |-> "resolve", list |-> l, modelID |-> modelID,
                    matches |-> MatchingRecords(DefinitionLists[l], modelID)]
    /\ UNCHANGED <<convVars, cfgVars, ptvoVars>>

NextDefinitions == \E l \in DOMAIN DefinitionLists, modelID \in ModelIds : Resolve(l, modelID)

SpecDefinitions == Init /\ [][NextDefinitions]_vars

\* C7: within each definitions list no zigbeeModel string and no model
\* identifier appears in two different records, every record carries a
\* zigbeeModel list or a fingerprint, and a model id resolves to at most
\* one record.
C7_IdentityUnique ==
    /\ \A l \in DOMAIN DefinitionLists :
          LET list == DefinitionLists[l]
          IN  /\ \A i, j \in DOMAIN list :
                    i # j => /\ list[i].zigbeeModel \cap list[j].zigbeeModel = {}
                             /\ list[i].model # list[j].model
              /\ \A i \in DOMAIN list : list[i].zigbeeModel # {} \/ list[i].fingerprint
    /\ resolved # None => Cardinality(resolved.matches) <= 1

\* a device reporting the third zigbeeModel string of a record resolves to it
C7_WitnessResolved ==
    /\ resolved # None /\ resolved.modelID = "755WSA"
    /\ \E i \in resolved.matches : DefinitionLists[resolved.list][i].model = "W599001"


(***************************************************************************)
(* ti.router: the transmit power converters                                *)
(***************************************************************************)
\* the range of the transmit_power expose
transmit_power_min == -20
transmit_power_max == 20

\* tzLocal.tirouter.convertSet: attribute 4919 written as int8 (type 0x28)
tirouter_convertSet(key, value) ==
    [threw |-> FALSE,
     writes |-> <<[cluster |-> "genBasic", attribute |-> 4919, value |-> value, type |-> 40]>>,
     state |-> Result(KV(key, value))]

\* tzLocal.tirouter.convertGet: reads attribute 0x1337
tirouter_convertGet(key) ==
    [threw |-> FALSE, reads |-> <<[cluster |-> "genBasic", attributes |-> <<4919>>]>>]

\* the truthiness of a number in an if (...) test
Truthy(x) == x # 0

\* fzLocal.tirouter.convert
tirouter(msg) ==
    LET result == KV("linkquality", msg.linkquality)
    IN  IF "4919" \in DOMAIN msg.data /\ Truthy(msg.data["4919"])
        THEN Result(result @@ KV("transmit_power", msg.data["4919"]))
        ELSE Result(result)

TransmitPowerValues == transmit_power_min..transmit_power_max

TiRouterMsgs ==
    [linkquality : {0, 87, 255},
     data : {<<>>} \cup {("4919" :> v) : v \in TransmitPowerValues}
                   \cup {("zclVersion" :> 3)}]

ConvertSetTransmitPower(value) ==
    LET out == tirouter_convertSet("transmit_power", value)
    IN  /\ last' = Call("tirouter_convertSet", <<8, "transmit_power", value>>, out)
        /\ lastSet' = [op |-> "set", ep |-> 8, key |-> "transmit_power", value |-> value,
                       code |-> out.writes[1].value]
        /\ UNCHANGED <<transactionStore, cfgVars, ptvoVars, defVars>>

ConvertGetTransmitPower ==
    /\ last' = Call("tirouter_convertGet", <<8, "transmit_power">>, tirouter_convertGet("transmit_power"))
    /\ UNCHANGED <<transactionStore, lastSet, cfgVars, ptvoVars, defVars>>

ConvertTiRouter(msg) ==
    /\ last' = Call("tirouter", <<msg>>, tirouter(msg))
    /\ UNCHANGED <<transactionStore, lastSet, cfgVars, ptvoVars, defVars>>

NextTiRouter ==
    \/ \E value \in TransmitPowerValues : ConvertSetTransmitPower(value) /\ UNCHANGED first
    \/ ConvertGetTransmitPower /\ UNCHANGED first
    \/ \E msg \in TiRouterMsgs : ConvertTiRouter(msg) /\ UNCHANGED first

SpecTiRouter == Init /\ [][NextTiRouter]_vars

\* C11: transmit power round-trips on ti.router: for every value v of the
\* exposed range, 0 included, convertSet writes genBasic attribute 4919 (the
\* attribute convertGet reads) with v and records transmit_power = v, and a
\* genBasic report carrying attribute 4919 = v decodes to transmit_power = v;
\* every decoded result carries linkquality.
C11_TransmitPowerRoundTrip ==
    /\ last.op = "tirouter_convertSet" =>
          LET v == last.args[3]
          IN  /\ Len(last.out.writes) = 1
              /\ last.out.writes[1].cluster = "genBasic"
              /\ last.out.writes[1].attribute = 4919
              /\ last.out.writes[1].value = v
              /\ last.out.state = Result(KV("transmit_power", v))
    /\ last.op = "tirouter_convertGet" =>
          last.out.reads = <<[cluster |-> "genBasic", attributes |-> <<4919>>]>>
    /\ last.op = "tirouter" =>
          LET msg == last.args[1]
              kv == last.out.kv
          IN  /\ last.out.defined
              /\ "linkquality" \in DOMAIN kv
              /\ kv["linkquality"] = msg.linkquality
              /\ "4919" \in DOMAIN msg.data =>
                    /\ "transmit_power" \in DOMAIN kv
                    /\ kv["transmit_power"] = msg.data["4919"]

\* the round trip of every value but 0 (the part of C11 the converters keep)
C11_NonZeroRoundTrip ==
    (last.op = "tirouter" /\ "4919" \in DOMAIN last.args[1].data
        /\ last.args[1].data["4919"] # 0) =>
        /\ "transmit_power" \in DOMAIN last.out.kv
        /\ last.out.kv["transmit_power"] = last.args[1].data["4919"]

\* transmit power 0 was set and a report carrying 0 came back
C11_ZeroReported ==
    /\ lastSet # None /\ lastSet.key = "transmit_power" /\ lastSet.value = 0
    /\ last.op = "tirouter" /\ "4919" \in DOMAIN last.args[1].data
    /\ last.args[1].data["4919"] = 0


(***************************************************************************)
(* A9MEM1570: the properties of the PowerTag record                        *)
(***************************************************************************)
\* the exposes of the record without the power factor
A9MEM1570_exposes_partial == <<
    "power", "power_apparent", "power_phase_a", "power_phase_b", "power_phase_c",
    "energy", "energy_phase_a", "energy_phase_b", "energy_phase_c",
    "ac_frequency",
    "voltage_phase_a", "voltage_phase_b", "voltage_phase_c",
    "voltage_phase_ab", "voltage_phase_bc", "voltage_phase_ca",
    "current_phase_a", "current_phase_b", "current_phase_c" >>

\* the names of the exposes of the A9MEM1570 record, in their order; a preset
\* (e.power(), e.power_apparent(), e.power_factor(), e.energy(),
\* e.ac_frequency()) is named as its function
A9MEM1570_exposes == <<
    "power", "power_apparent", "power_phase_a", "power_phase_b", "power_phase_c",
    "power_factor",
    "energy", "energy_phase_a", "energy_phase_b", "energy_phase_c",
    "ac_frequency",
    "voltage_phase_a", "voltage_phase_b", "voltage_phase_c",
    "voltage_phase_ab", "voltage_phase_bc", "voltage_phase_ca",
    "current_phase_a", "current_phase_b", "current_phase_c" >>

ExposedNames(exposes) == {exposes[i] : i \in DOMAIN exposes}

\* C12: every property key the PowerTag converter emits, for any frame, is
\* the name of a property exposed by the A9MEM1570 record.
C12_EmittedKeysExposed ==
    (last.op = "schneider_powertag" /\ last.out.result.defined) =>
        DOMAIN last.out.result.kv \subseteq ExposedNames(A9MEM1570_exposes)

\* a frame carrying every metering attribute, the power factor included, was
\* converted
C12_WitnessAllMetering ==
    /\ last.op = "schneider_powertag" /\ last.out.result.defined
    /\ last.args[1].clusterID = 1794
    /\ DOMAIN last.out.result.kv =
          {"energy", "energy_phase_a", "energy_phase_b", "energy_phase_c", "power_factor"}


(***************************************************************************)
(* PowerTag: acknowledgement, message types and duplicates                 *)
(***************************************************************************)
\* a call that passed the type test and the duplicate test
Processed(call) ==
    /\ call.op = "schneider_powertag"
    /\ call.args[1].type = "commandNotification"
    /\ ~call.out.duplicate

\* C13: for every processed commandNotification, whatever its command id,
\* whose options have bit 11 set, the converter sends exactly one greenPower
\* 'response' (gpdCmd 0xfe, srcID of the frame, tempMasterTx = network
\* channel - 11, srcEndpoint 242, default response disabled) and returns the
\* converted result only after that response has been sent (no result when
\* the sending fails); when bit 11 is clear it sends no response.
C13_Acknowledgement ==
    Processed(last) =>
        LET msg == last.args[1]
            sent == last.args[2]
            out == last.out
        IN  IF (msg.options \div 2048) % 2 = 1
            THEN IF sent
                 THEN /\ Len(out.acks) = 1
                      /\ out.acks[1].cluster = "greenPower"
                      /\ out.acks[1].command = "response"
                      /\ out.acks[1].gpdCmd = 254
                      /\ out.acks[1].srcID = msg.srcID
                      /\ out.acks[1].tempMasterTx = NetworkChannel - 11
                      /\ out.acks[1].srcEndpoint = 242
                      /\ out.acks[1].disableDefaultResponse
                      /\ out.result.defined
                 ELSE out.acks = <<>> /\ ~out.result.defined /\ out.threw
            ELSE out.acks = <<>> /\ out.result.defined /\ ~out.threw

\* a frame of command id 0xa3 with bit 11 (and bit 0) set was acknowledged
C13_WitnessAcknowledged ==
    /\ Processed(last)
    /\ last.args[1].commandID = 163 /\ last.args[1].options = 2049
    /\ Len(last.out.acks) = 1 /\ last.out.result.defined

\* C14: a greenPower message whose type is not commandNotification is
\* ignored: it yields no result, sends no acknowledgement and leaves the
\* duplicate-detection record as it was, even when bit 11 of its options is
\* set.
C14_OtherTypesIgnored ==
    [][(last' # last /\ last'.op = "schneider_powertag"
            /\ last'.args[1].type # "commandNotification") =>
          /\ ~last'.out.result.defined
          /\ last'.out.acks = <<>>
          /\ ~last'.out.threw
          /\ ~last'.out.duplicate
          /\ transactionStore' = transactionStore]_vars

\* a commissioning notification with bit 11 set arrived after a report of
\* the same device, command id and frame counter had been processed
C14_WitnessCommissioning ==
    /\ last.op = "schneider_powertag"
    /\ last.args[1].type = "commandCommissioningNotification"
    /\ last.args[1].options = 2048
    /\ powertag_key(last.args[1]) \in DOMAIN transactionStore
    /\ transactionStore[powertag_key(last.args[1])] # last.args[1].frameCounter


(***************************************************************************)
(* PowerTag: sequences of frames of two devices                            *)
(***************************************************************************)
PowerTagDevices == {PowerTagDevice, "0x00000000e0000002"}

\* voltage reports and 0xa3 frames of two devices, with and without rxAfterTx
SequenceFrames ==
    {[Frame("commandNotification", c, fc, o, 2820,
            ("rmsVoltage" :> 2301) @@ ("acVoltageDivisor" :> 10)) EXCEPT !.ieeeAddr = d] :
        d \in PowerTagDevices, c \in {161, 163}, fc \in 1..MaxFrameCounter, o \in {0, 2048}}

NextPowerTagSequence ==
    \E msg \in SequenceFrames : \E ackOk \in AckOutcomes(msg) :
        ConvertPowerTag(msg, ackOk) /\ UNCHANGED first

SpecPowerTagSequence == Init /\ [][NextPowerTagSequence]_vars

\* C15: over any sequence of frames, a commandNotification whose frame
\* counter equals that of the last processed frame of the same device and
\* the same command id is neither converted nor acknowledged; any other
\* frame (the same counter with another command id or from another device
\* included) is processed and becomes the last processed frame of its device
\* and command id, the record of every other device and command id staying
\* as it was.
C15_DuplicateSuppression ==
    [][(last' # last \/ transactionStore' # transactionStore) =>
          LET msg == last'.args[1]
              key == msg.ieeeAddr \o "_" \o ToString(msg.commandID)
              others == DOMAIN transactionStore \ {key}
          IN  IF key \in DOMAIN transactionStore /\ transactionStore[key] = msg.frameCounter
              THEN /\ last'.out.duplicate
                   /\ ~last'.out.result.defined
                   /\ last'.out.acks = <<>>
                   /\ transactionStore' = transactionStore
              ELSE /\ ~last'.out.duplicate
                   /\ last'.out.result.defined \/ last'.out.threw
                   /\ DOMAIN transactionStore' = DOMAIN transactionStore \cup {key}
                   /\ transactionStore'[key] = msg.frameCounter
                   /\ \A k \in others : transactionStore'[k] = transactionStore[k]]_vars

\* a frame was suppressed as a duplicate while frames of the same counter
\* with the other command id and from the other device had been processed
C15_WitnessSuppressed ==
    /\ last.op = "schneider_powertag" /\ last.out.duplicate
    /\ LET msg == last.args[1]
       IN  /\ \E k \in DOMAIN transactionStore :
                 /\ k # powertag_key(msg)
                 /\ StartsWith(k, msg.ieeeAddr)
                 /\ transactionStore[k] = msg.frameCounter
           /\ \E k \in DOMAIN transactionStore :
                 /\ ~StartsWith(k, msg.ieeeAddr)
                 /\ SubSeq(k, Len(k) - 2, Len(k)) = ToString(msg.commandID)
                 /\ transactionStore[k] = msg.frameCounter


(***************************************************************************)
(* ptvo.switch: configure                                                  *)
(***************************************************************************)
\* ptvoSetMetaOption that stores nothing
ptvoSetMetaOption_ignoring(device, key, value) == device

\* ptvoSetMetaOption(device, key, value): the device after the call; value is
\* [present, v], and a value of undefined leaves a key that reads back as
\* the default of ptvoGetMetaOption, as an absent key does
ptvoSetMetaOption(device, key, value) ==
    IF value.present
    THEN [device EXCEPT !.meta = (key :> value.v) @@ device.meta]
    ELSE [device EXCEPT !.meta = [k \in DOMAIN device.meta \ {key} |-> device.meta[k]]]

\* the attributes configure stores for haElectricalMeasurement
ptvo_haElectricalMeasurement ==
    ("dcCurrentDivisor" :> 1000) @@ ("dcCurrentMultiplier" :> 1)
    @@ ("dcPowerDivisor" :> 10) @@ ("dcPowerMultiplier" :> 1)
    @@ ("dcVoltageDivisor" :> 100) @@ ("dcVoltageMultiplier" :> 1)
    @@ ("acVoltageDivisor" :> 100) @@ ("acVoltageMultiplier" :> 1)
    @@ ("acCurrentDivisor" :> 1000) @@ ("acCurrentMultiplier" :> 1)
    @@ ("acPowerDivisor" :> 10) @@ ("acPowerMultiplier" :> 1)

\* the attributes configure stores for seMetering
ptvo_seMetering == ("divisor" :> 1000) @@ ("multiplier" :> 1)

\* endpoint.saveClusterAttributeKeyValue(cluster, list) on the stored attributes
saveClusterAttributeKeyValue(attributes, epId, cluster, list) ==
    LET ofEndpoint == IF epId \in DOMAIN attributes THEN attributes[epId] ELSE <<>>
        ofCluster == IF cluster \in DOMAIN ofEndpoint THEN ofEndpoint[cluster] ELSE <<>>
    IN  (epId :> ((cluster :> (list @@ ofCluster)) @@ ofEndpoint)) @@ attributes

RECURSIVE ptvo_configure_endpoints(_, _, _)
\* for (const endpoint of device.endpoints) of configure
ptvo_configure_endpoints(device, i, attributes) ==
    IF i > Len(device.endpoints) THEN attributes
    ELSE LET endpoint == device.endpoints[i]
             a1 == IF supportsInputCluster(endpoint, "haElectricalMeasurement")
                   THEN saveClusterAttributeKeyValue(attributes, endpoint.ID,
                            "haElectricalMeasurement", ptvo_haElectricalMeasurement)
                   ELSE attributes
             a2 == IF supportsInputCluster(endpoint, "seMetering")
                   THEN saveClusterAttributeKeyValue(a1, endpoint.ID, "seMetering", ptvo_seMetering)
                   ELSE a1
         IN  ptvo_configure_endpoints(device, i + 1, a2)

\* configure with the error of the read passed on to the caller
ptvo_configure_rethrowing(device, attributes, outcome) ==
    LET read == getEndpoint(device, 1) # 0
        got == read /\ outcome.kind = "response"
        failed == read /\ outcome.kind = "failed"
    IN  [device |-> IF got THEN ptvoSetMetaOption(device, "device_config", Attr(outcome.attrs, "32768"))
                    ELSE device,
         reads |-> IF read THEN <<[cluster |-> "genBasic", attributes |-> <<32768>>]>> ELSE <<>>,
         saves |-> IF got THEN 1 ELSE 0,
         caught |-> FALSE,
         threw |-> failed,
         clusterAttributes |-> IF failed THEN attributes
                               ELSE ptvo_configure_endpoints(device, 1, attributes)]

\* configure: (device, coordinatorEndpoint) of the ptvo.switch record; outcome
\* is what controlEp.read resolves to: a failure, nothing, or the attributes
\* of the response
ptvo_configure(device, attributes, outcome) ==
    LET read == getEndpoint(device, 1) # 0
        got == read /\ outcome.kind = "response"
    IN  [device |-> IF got THEN ptvoSetMetaOption(device, "device_config", Attr(outcome.attrs, "32768"))
                    ELSE device,
         reads |-> IF read THEN <<[cluster |-> "genBasic", attributes |-> <<32768>>]>> ELSE <<>>,
         saves |-> IF got THEN 1 ELSE 0,
         caught |-> read /\ outcome.kind = "failed",
         threw |-> FALSE,
         clusterAttributes |-> ptvo_configure_endpoints(device, 1, attributes)]

\* what the read of attribute 32768 resolves to
PtvoReadConfigs == {"", "01W*", "02R#,o\n64*"}
ReadOutcomes ==
    {[kind |-> "failed", attrs |-> <<>>], [kind |-> "nothing", attrs |-> <<>>]}
    \cup {[kind |-> "response", attrs |-> a] :
             a \in {<<>>} \cup {("32768" :> c) : c \in PtvoReadConfigs}}

PtvoConfigureEndpointLists ==
    {<<>>,
     <<Endpoint(1, {"genBasic", "genOnOff"}, {}),
       Endpoint(2, {"haElectricalMeasurement", "seMetering"}, {})>>,
     <<Endpoint(1, {"genBasic", "seMetering", "genPowerCfg"}, {"haElectricalMeasurement"}),
       Endpoint(3, {"haElectricalMeasurement", "genLevelCtrl"}, {"genMultistateInput"})>>,
     <<Endpoint(2, {"seMetering", "genOnOff"}, {})>>}

PtvoConfigureDevices ==
    {[dummy |-> FALSE, endpoints |-> e, meta |-> m] :
        e \in PtvoConfigureEndpointLists,
        m \in {<<>>, ("device_config" :> "03RC")}}

ConfigurePtvo(outcome) ==
    LET r == ptvo_configure(ptvoDevice, clusterAttributes, outcome)
    IN  /\ ~ptvoDevice.dummy
        /\ cfg' = [op |-> "ptvo_configure", status |-> IF r.threw THEN "failed" ELSE "done",
                   outcome |-> outcome, reads |-> r.reads, saves |-> r.saves,
                   caught |-> r.caught]
        /\ ptvoDevice' = r.device
        /\ clusterAttributes' = r.clusterAttributes
        /\ UNCHANGED <<req, exposesCall, endpointCall, convVars, defVars>>

InitPtvoConfigure == InitOthers /\ ptvoDevice \in PtvoConfigureDevices

NextPtvoConfigure ==
    \/ \E outcome \in ReadOutcomes : ConfigurePtvo(outcome)
    \/ CallExposes
    \/ CallEndpoint

SpecPtvoConfigure == InitPtvoConfigure /\ [][NextPtvoConfigure]_vars

\* a step of configure
ConfigureStep ==
    /\ cfg' # cfg \/ ptvoDevice' # ptvoDevice \/ clusterAttributes' # clusterAttributes
    /\ cfg'.op = "ptvo_configure"

\* the attributes stored for a cluster of an endpoint, <<>> if none
Stored(attributes, epId, cluster) ==
    IF epId \in DOMAIN attributes /\ cluster \in DOMAIN attributes[epId]
    THEN attributes[epId][cluster] ELSE <<>>

\* C16: if the read of genBasic attribute 32768 from endpoint 1 fails, the
\* error is swallowed: device.meta keeps its previous device_config, the
\* device is not saved, configure completes without error, and the fixed
\* haElectricalMeasurement and seMetering (divisor 1000, multiplier 1)
\* attributes are stored on every endpoint that has the cluster as an input
\* cluster.
C16_FailedReadTolerated ==
    [][(ConfigureStep /\ cfg'.reads # <<>> /\ cfg'.outcome.kind = "failed") =>
          /\ cfg'.status = "done"
          /\ cfg'.caught
          /\ cfg'.saves = 0
          /\ ptvoDevice'.meta = ptvoDevice.meta
          /\ \A i \in DOMAIN ptvoDevice.endpoints :
                LET ep == ptvoDevice.endpoints[i]
                IN  /\ "haElectricalMeasurement" \in ep.inputClusters =>
                          /\ DOMAIN Stored(clusterAttributes', ep.ID, "haElectricalMeasurement")
                                = {"dcCurrentDivisor", "dcCurrentMultiplier", "dcPowerDivisor",
                                   "dcPowerMultiplier", "dcVoltageDivisor", "dcVoltageMultiplier",
                                   "acVoltageDivisor", "acVoltageMultiplier", "acCurrentDivisor",
                                   "acCurrentMultiplier", "acPowerDivisor", "acPowerMultiplier"}
                          /\ Stored(clusterAttributes', ep.ID, "haElectricalMeasurement")["acCurrentDivisor"] = 1000
                          /\ Stored(clusterAttributes', ep.ID, "haElectricalMeasurement")["acVoltageDivisor"] = 100
                          /\ Stored(clusterAttributes', ep.ID, "haElectricalMeasurement")["acPowerDivisor"] = 10
                    /\ "seMetering" \in ep.inputClusters =>
                          Stored(clusterAttributes', ep.ID, "seMetering")
                              = ("divisor" :> 1000) @@ ("multiplier" :> 1)]_vars

\* the read failed on a device that had a device_config and metering endpoints
C16_WitnessFailedRead ==
    /\ cfg.op = "ptvo_configure" /\ cfg.outcome.kind = "failed" /\ cfg.caught
    /\ "device_config" \in DOMAIN ptvoDevice.meta
    /\ ptvoDevice.meta["device_config"] = "01W*"
    /\ Stored(clusterAttributes, 2, "seMetering") # <<>>
    /\ Stored(clusterAttributes, 2, "haElectricalMeasurement") # <<>>


\* the value stored as device.meta.device_config: [present, v]
StoredConfig(device) == Attr(device.meta, "device_config")

\* the device-level exposes appended to a list for the device options
WithDeviceExposes(r) ==
    r.expose
    \o (IF "expose_action" \in r.deviceOptions THEN <<Expose("action", "action", "")>> ELSE <<>>)
    \o (IF "expose_battery" \in r.deviceOptions THEN <<Expose("battery", "battery", "")>> ELSE <<>>)

\* the result of each path of exposes() and of endpoint() for a device
ExposesOfConfigPath(device) == WithDeviceExposes(ConfigExposes(device, StoredConfig(device).v))
ExposesOfClusterPath(device) == WithDeviceExposes(NoConfigLoop(device, 1, <<>>, {}))
EndpointOfConfigPath(device) ==
    ("action" :> 1)
    @@ ConfigEndpointNames(SplitLines(StoredConfig(device).v), 1, DeviceEndpointNames(device))
EndpointOfClusterPath(device) == ptvo_endpoint([device EXCEPT !.meta = <<>>])

\* C17: a configure call whose read returned the attributes of a response
\* stores the returned value of attribute 32768 as device.meta.device_config
\* and saves the device once; any other configure call leaves device.meta as
\* it was and does not save, so that after any sequence of calls the stored
\* value is that of the most recent successful read.  An exposes() or
\* endpoint() call takes the config-string path exactly when the stored value
\* is a non-empty string, and the cluster-derived path when it is absent or
\* empty.
C17_ConfigStored ==
    [][/\ ConfigureStep =>
             IF cfg'.reads # <<>> /\ cfg'.outcome.kind = "response"
             THEN /\ cfg'.saves = 1
                  /\ IF "32768" \in DOMAIN cfg'.outcome.attrs
                     THEN /\ "device_config" \in DOMAIN ptvoDevice'.meta
                          /\ ptvoDevice'.meta["device_config"] = cfg'.outcome.attrs["32768"]
                     ELSE "device_config" \notin DOMAIN ptvoDevice'.meta
             ELSE cfg'.saves = 0 /\ ptvoDevice'.meta = ptvoDevice.meta
       /\ exposesCall' # exposesCall =>
             IF StoredConfig(ptvoDevice).present /\ StoredConfig(ptvoDevice).v # ""
             THEN exposesCall'.result = ExposesOfConfigPath(ptvoDevice)
             ELSE exposesCall'.result = ExposesOfClusterPath(ptvoDevice)
       /\ endpointCall' # endpointCall =>
             IF StoredConfig(ptvoDevice).present /\ StoredConfig(ptvoDevice).v # ""
             THEN endpointCall'.result = EndpointOfConfigPath(ptvoDevice)
             ELSE endpointCall'.result = EndpointOfClusterPath(ptvoDevice)]_vars

\* a successful read replaced the device_config, a later read failed, and
\* exposes() and endpoint() then took the config-string path of the value read
C17_WitnessReplaced ==
    /\ cfg.op = "ptvo_configure" /\ cfg.outcome.kind = "failed" /\ cfg.caught
    /\ "device_config" \in DOMAIN ptvoDevice.meta
    /\ ptvoDevice.meta["device_config"] = "02R#,o\n64*"
    /\ exposesCall # None /\ endpointCall # None
    /\ exposesCall.result = ExposesOfConfigPath(ptvoDevice)
    /\ exposesCall.result # ExposesOfClusterPath(ptvoDevice)
    /\ endpointCall.result = EndpointOfConfigPath(ptvoDevice)
    /\ endpointCall.result # EndpointOfClusterPath(ptvoDevice)


(***************************************************************************)
(* ptvo.switch exposes: the standard exposes and the controls of an        *)
(* endpoint                                                                *)
(***************************************************************************)
StandardCalls == {j \in DOMAIN exposesCall.calls : exposesCall.calls[j].kind = "standard"}

\* C18: in exposes, ptvoAddStandardExposes is applied exactly once to every
\* endpoint present on the device, in the no-config path and in the config
\* path, whether or not the endpoint is mentioned in device_config; in the
\* config path only after all entries of that endpoint have been processed,
\* and never for an endpoint id the device does not have.
C18_StandardExposesOnce ==
    (exposesCall # None /\ ~ptvoDevice.dummy) =>
        LET calls == exposesCall.calls
        IN  /\ \A n \in DeviceEndpointIds :
                  Cardinality({j \in StandardCalls : calls[j].id = n}) = 1
            /\ \A j \in StandardCalls : calls[j].id \in DeviceEndpointIds
            /\ \A j \in StandardCalls : \A k \in DOMAIN calls :
                  (calls[k].kind = "entry" /\ calls[k].id = calls[j].id) => k < j

\* every endpoint id of the device and of the device_config is below 100
TwoDigitIds ==
    /\ \A n \in DeviceEndpointIds : n < 100
    /\ \A line \in ConfigLineSet : line.id < 100

\* the part of C18 the code keeps: the same, for ids of at most two digits
C18_TwoDigitIdsOnce ==
    TwoDigitIds => C18_StandardExposesOnce

\* exposes ran the config path on a device that has an endpoint 100
C18_Endpoint100 ==
    /\ exposesCall # None /\ ConfigPath
    /\ 100 \in DeviceEndpointIds


\* the expose types that control or report the on/off state of an endpoint
OnOffTypes == {"light_brightness_colorxy", "light_brightness", "switch"} \cup GpioStateTypes

\* the positions of the result holding an expose of one of the types for an
\* endpoint name
ExposesOf(types, epName) ==
    {i \in DOMAIN exposesCall.result :
        exposesCall.result[i].type \in types /\ exposesCall.result[i].endpoint = epName}

ExposedEndpointNames == {e.endpoint : e \in ExposeSet} \ {""}

\* C19: the list returned by exposes never holds two on/off controls for one
\* endpoint: for every endpoint name there is at most one of {light expose,
\* switch expose, GPIO state expose} and at most one generic analog value
\* (text) expose, in the no-config path and in the config path.
C19_OneControlPerEndpoint ==
    exposesCall # None =>
        \A epName \in ExposedEndpointNames :
            /\ Cardinality(ExposesOf(OnOffTypes, epName)) <= 1
            /\ Cardinality(ExposesOf({"text"}, epName)) <= 1

\* the part of C19 the code keeps: without a device_config, and for the text
\* expose in both paths
C19_OneControlWithoutConfig ==
    exposesCall # None =>
        \A epName \in ExposedEndpointNames :
            /\ ~ConfigPath => Cardinality(ExposesOf(OnOffTypes, epName)) <= 1
            /\ Cardinality(ExposesOf({"text"}, epName)) <= 1

\* one config line of an endpoint that is a dimmable light
C19_LineOnLight ==
    /\ exposesCall # None /\ ConfigPath
    /\ ptvoDevice.meta["device_config"] = "02R#,o"
    /\ \E i \in DOMAIN ptvoDevice.endpoints :
          ptvoDevice.endpoints[i].ID = 2 /\ "genLevelCtrl" \in ptvoDevice.endpoints[i].inputClusters
    /\ Cardinality(ExposesOf(OnOffTypes, "l2")) = 2


\* the positions of the result holding an expose of a type
PositionsOf(type) == {i \in DOMAIN exposesCall.result : exposesCall.result[i].type = type}

SomeEndpoint(P(_)) == \E i \in DOMAIN ptvoDevice.endpoints : P(ptvoDevice.endpoints[i])
HasMultistateInput(ep) ==
    "genMultistateInput" \in ep.inputClusters \/ "genMultistateInput" \in ep.outputClusters
HasPowerCfg(ep) == "genPowerCfg" \in ep.inputClusters

\* C20: exposes appends the device-level action expose iff some endpoint
\* present on the device supports genMultistateInput (input or output), and
\* the battery expose iff some endpoint present on the device supports
\* genPowerCfg as input; each at most once, after all per-endpoint exposes,
\* action before battery.  For a dummy device neither is appended and the
\* list is exactly a text and a switch expose for each of l1..l8.
C20_DeviceLevelExposes ==
    exposesCall # None =>
        LET result == exposesCall.result
            action == PositionsOf("action")
            battery == PositionsOf("battery")
        IN  /\ Cardinality(action) <= 1 /\ Cardinality(battery) <= 1
            /\ \A i \in action \cup battery : \A j \in DOMAIN result \ (action \cup battery) : j < i
            /\ \A i \in action : \A j \in battery : i < j
            /\ IF ptvoDevice.dummy
               THEN /\ action = {} /\ battery = {}
                    /\ Len(result) = 16
                    /\ \A n \in 1..8 :
                          /\ result[2 * n - 1].type = "text"
                          /\ result[2 * n - 1].name = EpName(n)
                          /\ result[2 * n - 1].endpoint = EpName(n)
                          /\ result[2 * n].type = "switch"
                          /\ result[2 * n].endpoint = EpName(n)
               ELSE /\ action # {} <=> SomeEndpoint(HasMultistateInput)
                    /\ battery # {} <=> SomeEndpoint(HasPowerCfg)

\* the part of C20 the code keeps: the same, for ids of at most two digits
C20_TwoDigitIdsDeviceLevel ==
    TwoDigitIds => C20_DeviceLevelExposes

\* exposes ran the config path on a device whose only endpoint, 100, has
\* genPowerCfg and genMultistateInput
C20_BatteryOnEndpoint100 ==
    /\ exposesCall # None /\ ConfigPath
    /\ DeviceEndpointIds = {100}
    /\ SomeEndpoint(HasPowerCfg) /\ SomeEndpoint(HasMultistateInput)
    /\ PositionsOf("battery") = {} /\ PositionsOf("action") = {}


(***************************************************************************)
(* ptvo.switch endpoint: the fallback names                                *)
(***************************************************************************)
\* the names l<n> of the device endpoints and of the config lines
OwnEndpointNames ==
    {EpName(n) : n \in DeviceEndpointIds} \cup {EpName(line.id) : line \in ConfigLineSet}

\* C21: the endpoint map uses the fallback names l1..l8 only when the device
\* reports no endpoints and has no device_config: for a device with at least
\* one endpoint and an empty device_config the map is exactly l<n> -> n for
\* each device endpoint n plus action -> 1.  In every case the map contains
\* action -> 1 and l<n> -> n for every device endpoint n.
C21_EndpointFallback ==
    endpointCall # None =>
        LET map == endpointCall.result
            deviceConfig == ptvoGetMetaOption(ptvoDevice, "device_config", "")
        IN  /\ "action" \in DOMAIN map /\ map["action"] = 1
            /\ \A n \in DeviceEndpointIds : EpName(n) \in DOMAIN map /\ map[EpName(n)] = n
            /\ (DeviceEndpointIds # {} /\ deviceConfig = "") =>
                  DOMAIN map = {"action"} \cup {EpName(n) : n \in DeviceEndpointIds}
            /\ (DOMAIN map \ ({"action"} \cup OwnEndpointNames) # {}) =>
                  DeviceEndpointIds = {} /\ deviceConfig = ""

\* the part of C21 the code keeps: action and the device endpoints are always
\* in the map, a device without endpoints and device_config gets exactly the
\* fallback names, and a device_config keeps the fallback names out
C21_EndpointAlways ==
    endpointCall # None =>
        LET map == endpointCall.result
            deviceConfig == ptvoGetMetaOption(ptvoDevice, "device_config", "")
        IN  /\ "action" \in DOMAIN map /\ map["action"] = 1
            /\ \A n \in DeviceEndpointIds : EpName(n) \in DOMAIN map /\ map[EpName(n)] = n
            /\ (DeviceEndpointIds = {} /\ deviceConfig = "") =>
                  DOMAIN map = {"action"} \cup {EpName(n) : n \in 1..8}
            /\ deviceConfig # "" => DOMAIN map = {"action"} \cup OwnEndpointNames

\* endpoint() ran on a device with endpoints 1 and 2 and no device_config
C21_EndpointsWithoutConfig ==
    /\ endpointCall # None
    /\ DeviceEndpointIds = {1, 2}
    /\ "device_config" \notin DOMAIN ptvoDevice.meta
    /\ "l8" \in DOMAIN endpointCall.result


(***************************************************************************)
(* Sercomm smart plugs: configure                                          *)
(***************************************************************************)
MaxConfigureRuns == 3     \* configure calls on one device

sercomm_plugs == {"SZ-ESW01", "SZ-ESW01-AU", "SZ-ESW02"}

\* the awaited requests of configure, in their order
sercomm_configure_requests(model) ==
    IF model = "SZ-ESW01-AU"
    THEN <<"bind", "onOff", "instantaneousDemand", "currentSummDelivered",
           "readEletricalMeasurementMultiplierDivisors", "rmsVoltage", "rmsCurrent">>
    ELSE <<"bind", "onOff", "instantaneousDemand">>

\* the scaling stored before any request
sercomm_configure_saveAfter_eager(model) == 0

\* the number of requests awaited before saveClusterAttributeKeyValue
sercomm_configure_saveAfter(model) == IF model = "SZ-ESW01-AU" THEN 4 ELSE 3

\* the attributes configure stores for seMetering
sercomm_seMetering == ("divisor" :> 1000000) @@ ("multiplier" :> 1)

\* the body of configure from the completion of the request before position
\* `done` + 1 up to the next await or the return: the scaling is saved when
\* its statement is reached
sercomm_configure_continue(call, attributes) ==
    LET requests == sercomm_configure_requests(call.model)
        save == Len(call.done) = sercomm_configure_saveAfter(call.model)
    IN  [call |-> [call EXCEPT
                      !.saved = call.saved \/ save,
                      !.status = IF Len(call.done) = Len(requests) THEN "resolved" ELSE "pending"],
         attributes |-> IF save
                        THEN saveClusterAttributeKeyValue(attributes, 1, "seMetering", sercomm_seMetering)
                        ELSE attributes]

\* configure is called on a plug; a device without endpoint 1 makes the first
\* request fail (endpoint is undefined)
ConfigureSercomm(model, endpoints) ==
    /\ IF cfg = None THEN TRUE
       ELSE /\ cfg.op = "sercomm_configure" /\ cfg.status # "pending"
            /\ cfg.model = model /\ cfg.endpoints = endpoints
            /\ cfg.run < MaxConfigureRuns
    /\ LET call == [op |-> "sercomm_configure", model |-> model, endpoints |-> endpoints,
                    run |-> IF cfg = None THEN 1 ELSE cfg.run + 1,
                    previous |-> IF cfg = None THEN "none" ELSE cfg.status,
                    status |-> "pending", done |-> <<>>, failed |-> "", saved |-> FALSE]
           r == sercomm_configure_continue(call, clusterAttributes)
       IN  IF 1 \in endpoints
           THEN cfg' = r.call /\ clusterAttributes' = r.attributes
           ELSE /\ cfg' = [call EXCEPT !.status = "rejected", !.failed = "bind"]
                /\ clusterAttributes' = clusterAttributes
    /\ UNCHANGED <<req, convVars, ptvoVars, defVars>>

\* the awaited request completes: configure goes on, or fails with its error
ConfigureSercommContinue(ok) ==
    /\ cfg # None /\ cfg.op = "sercomm_configure" /\ cfg.status = "pending"
    /\ LET request == sercomm_configure_requests(cfg.model)[Len(cfg.done) + 1]
           r == sercomm_configure_continue([cfg EXCEPT !.done = Append(cfg.done, request)],
                                           clusterAttributes)
       IN  IF ok
           THEN cfg' = r.call /\ clusterAttributes' = r.attributes
           ELSE /\ cfg' = [cfg EXCEPT !.status = "rejected", !.failed = request]
                /\ clusterAttributes' = clusterAttributes
    /\ UNCHANGED <<req, convVars, ptvoVars, defVars>>

NextSercomm ==
    \/ \E model \in sercomm_plugs, endpoints \in {{1}, {1, 2}, {}} : ConfigureSercomm(model, endpoints)
    \/ \E ok \in BOOLEAN : ConfigureSercommContinue(ok)

SpecSercomm == Init /\ [][NextSercomm]_vars

\* the requests that precede the saving of the scaling
EarlierRequests(model) ==
    {"bind", "onOff", "instantaneousDemand"}
    \cup (IF model = "SZ-ESW01-AU" THEN {"currentSummDelivered"} ELSE {})

Succeeded(call) == {call.done[i] : i \in DOMAIN call.done}

\* C22: the plugs SZ-ESW01, SZ-ESW01-AU and SZ-ESW02 store the fixed seMetering
\* scaling (divisor 1000000, multiplier 1) on endpoint 1 only after the bind
\* and the on/off and metering reporting requests of configure have
\* succeeded: if one of those requests fails, configure fails and stores no
\* scaling; after a successful configure the stored divisor is 1000000 and
\* the multiplier 1.
C22_ScalingAfterRequests ==
    (cfg # None /\ cfg.op = "sercomm_configure") =>
        /\ cfg.saved =>
              /\ EarlierRequests(cfg.model) \subseteq Succeeded(cfg)
              /\ Stored(clusterAttributes, 1, "seMetering")
                    = ("divisor" :> 1000000) @@ ("multiplier" :> 1)
        /\ (cfg.status = "rejected" /\ cfg.failed \in EarlierRequests(cfg.model)) =>
              /\ ~cfg.saved
              /\ cfg.run = 1 => clusterAttributes = <<>>
        /\ cfg.status = "resolved" =>
              /\ cfg.saved
              /\ Succeeded(cfg) = {sercomm_configure_requests(cfg.model)[i] :
                                      i \in DOMAIN sercomm_configure_requests(cfg.model)}
              /\ Stored(clusterAttributes, 1, "seMetering")["divisor"] = 1000000
              /\ Stored(clusterAttributes, 1, "seMetering")["multiplier"] = 1
        /\ DOMAIN clusterAttributes \subseteq {1}

\* a configure of SZ-ESW01 succeeded and stored the scaling after the
\* configure before it had failed
C22_WitnessStoredAfterFailure ==
    /\ cfg # None /\ cfg.op = "sercomm_configure" /\ cfg.model = "SZ-ESW01"
    /\ cfg.previous = "rejected" /\ cfg.status = "resolved" /\ cfg.saved
    /\ Stored(clusterAttributes, 1, "seMetering") = sercomm_seMetering

=============================================================================
